---- MODULE Spec2Model ----
(***************************************************************************)
(* The Engagement & Progression Engine of leap_ielts: the record store,    *)
(* the streak calculator, the skill analyzer, the goal assignment, the     *)
(* incentive manager and the services that drive them.                     *)
(*                                                                         *)
(* Dates are day numbers; day 0 is a Monday, so datetime.weekday() is      *)
(* day % 7 (0 = Monday, 4 = Friday).  Only the calendar day of a timestamp *)
(* decides anything in the code modelled here.  Completions are kept in    *)
(* the order of their completed_at.                                        *)
(*                                                                         *)
(* Floats (skill levels, adjustments) are fixed-point numbers in units of  *)
(* 1/Unit of an IELTS band; scores are whole numbers 0..100 and a mean is  *)
(* compared with a range by cross-multiplication, so no mean is rounded.   *)
(***************************************************************************)
EXTENDS Integers, Sequences, FiniteSets, TLC

VARIABLES
    today,              \* the calendar day datetime.utcnow() reports
    users,              \* table user: id -> row
    completions,        \* table activity_completion, oldest first
    streak_history,     \* table streak_history, in insertion order
    skill_progress,     \* table skill_progress, in insertion order
    incentive_unlocks,  \* table incentive_unlock, in insertion order
    daily_goals,        \* table daily_goal, in insertion order
    leaderboard_entries, \* table leaderboard_entry, in insertion order
    inflight,           \* concurrent requests: what each has read and not yet written
    last_call           \* the last engine call: its inputs, the rows it saw, its result

vars == <<today, users, completions, streak_history, skill_progress,
          incentive_unlocks, daily_goals, leaderboard_entries, inflight, last_call>>

----------------------------------------------------------------------------
(* Bounds of the model *)

MaxDay == 7
MaxStreak == 7
MaxHistory == 1
MaxCompletions == 1
MaxActivities == 5
MaxProgress == 2
MaxGoals == 3
MaxPoints == 20

----------------------------------------------------------------------------
(* Configuration (utils/config.py) *)

Unit == 10000

WEEKEND_RECOVERY_ENABLED == TRUE
SKILL_ANALYSIS_TRIGGER_COUNT == 5
SKILL_MOVING_AVERAGE_ALPHA == 3000
SKILL_MAX_CHANGE_PER_UPDATE == 5000
INCENTIVE_TIER1_STREAK == 7
INCENTIVE_TIER1_ACTIVITIES == 30
INCENTIVE_TIER1_POINTS == 500
INCENTIVE_TIER2_STREAK == 30
INCENTIVE_TIER2_ACTIVITIES == 100
INCENTIVE_TIER2_POINTS == 2000
INCENTIVE_PREMIUM_STREAK == 14
INCENTIVE_PREMIUM_SKILL_ATTEMPTS == 5
DAILY_GOAL_DURATION_MIN == 5
DAILY_GOAL_DURATION_MAX == 15
GOAL_PRIORITY_SCALING == 20000
GOAL_RECENCY_PENALTY == 1000
LEADERBOARD_PERIOD_DAYS == 30
LEADERBOARD_ACTIVE_DAYS_WEIGHT == 4000
LEADERBOARD_STREAK_WEIGHT == 3000
LEADERBOARD_COMPLETION_WEIGHT == 3000

\* Mutant: the best range adjusts by a whole band
SCORE_ADJUSTMENTS_whole_band ==
    << <<90, 100, 10000>>, <<80, 89, 2000>>, <<70, 79, 1000>>,
       <<60, 69, 0>>, <<50, 59, -1000>>, <<0, 49, -2000>> >>

\* SCORE_ADJUSTMENTS, in the dict's order: <<min_score, max_score, adjustment>>
SCORE_ADJUSTMENTS ==
    << <<90, 100, 3000>>, <<80, 89, 2000>>, <<70, 79, 1000>>,
       <<60, 69, 0>>, <<50, 59, -1000>>, <<0, 49, -2000>> >>

----------------------------------------------------------------------------
(* Data model (data/models.py) *)

SkillType == {"reading", "writing", "listening", "speaking"}

\* The members of the enum in the order `for skill in SkillType` visits them
SkillOrder == <<"reading", "writing", "listening", "speaking">>
NoSkill == ""

NoDate == -1        \* a DateTime column holding None
None == -1          \* a call that returned None

UserIds == {1, 2}   \* user 2 is in no state of the store: an unknown id

Max(a, b) == IF a >= b THEN a ELSE b
Min(a, b) == IF a <= b THEN a ELSE b

Weekday(d) == d % 7

\* The row create_user leaves: every Column default
NewUser ==
    [ current_streak |-> 0, longest_streak |-> 0, last_activity_date |-> NoDate,
      total_points |-> 0, total_activities |-> 0,
      level |-> [s \in SkillType |-> 0], target_score |-> 65000,
      preparation_timeline |-> "medium_term" ]

NoUser ==
    [ current_streak |-> None, longest_streak |-> None, last_activity_date |-> NoDate,
      total_points |-> None, total_activities |-> None,
      level |-> [s \in SkillType |-> None], target_score |-> None,
      preparation_timeline |-> "" ]

get_by_id(uid) == IF uid \in DOMAIN users THEN users[uid] ELSE NoUser

get_skill_level(u, skill) == u.level[skill]

----------------------------------------------------------------------------
(* Streak calculator (core/algorithms/streak_calculator.py) *)

\* _is_weekend_recovery_valid: the weekday of the last activity against the
\* weekday of a second reading of the clock, nowDay
_is_weekend_recovery_valid(last_activity_datetime, nowDay) ==
    IF ~WEEKEND_RECOVERY_ENABLED THEN FALSE
    ELSE Weekday(last_activity_datetime) = 4 /\ Weekday(nowDay) = 0

\* Mutant: the broken streak is recorded after the counter was reset
_record_broken_streak_after_reset(uid, u, nowDay) ==
    << [ user_id |-> uid, streak_count |-> 1, streak_started |-> nowDay - 1,
         broken_on |-> nowDay, recovery_used |-> FALSE ] >>

\* _record_broken_streak: the rows it adds
_record_broken_streak(uid, u, nowDay) ==
    IF u.current_streak > 0
    THEN << [ user_id |-> uid, streak_count |-> u.current_streak,
              streak_started |-> nowDay - u.current_streak,
              broken_on |-> nowDay, recovery_used |-> FALSE ] >>
    ELSE << >>

\* Mutant: the gap counts both end days
days_gap_inclusive(day, u) == day - u.last_activity_date + 1

days_gap(day, u) == day - u.last_activity_date

\* Mutant: an activity already counted today counts again
streak_transition_counts_same_day(u, day, nowDay) ==
    IF u.last_activity_date = NoDate THEN "start"
    ELSE IF days_gap(day, u) <= 1 THEN "continue"
    ELSE IF days_gap(day, u) = 2 /\ _is_weekend_recovery_valid(u.last_activity_date, nowDay)
         THEN "recover"
    ELSE "break"

\* Which branch update_streak takes
streak_transition(u, day, nowDay) ==
    IF u.last_activity_date = NoDate THEN "start"
    ELSE IF days_gap(day, u) = 0 THEN "noop"
    ELSE IF days_gap(day, u) = 1 THEN "continue"
    ELSE IF days_gap(day, u) = 2 /\ _is_weekend_recovery_valid(u.last_activity_date, nowDay)
         THEN "recover"
    ELSE "break"

streak_start(u) ==
    [u EXCEPT !.current_streak = 1, !.longest_streak = Max(u.longest_streak, 1)]

\* Mutant: the longest streak is not raised with the current one
streak_continue_keeps_longest(u) ==
    [u EXCEPT !.current_streak = u.current_streak + 1]

streak_continue(u) ==
    [u EXCEPT !.current_streak = u.current_streak + 1,
              !.longest_streak = Max(u.longest_streak, u.current_streak + 1)]

streak_recover(u) ==
    [u EXCEPT !.current_streak = u.current_streak + 1,
              !.longest_streak = Max(u.longest_streak, u.current_streak + 1)]

recovery_record(uid, u) ==
    << [ user_id |-> uid, streak_count |-> u.current_streak,
         streak_started |-> u.last_activity_date,
         broken_on |-> NoDate, recovery_used |-> TRUE ] >>

streak_break(u) ==
    [u EXCEPT !.current_streak = 1, !.longest_streak = Max(u.longest_streak, 1)]

\* update_streak(user) called on day `day`; nowDay is the day the clock shows
\* when _is_weekend_recovery_valid reads it again.  The result: the user row,
\* the streak_history rows added, the value returned.
update_streak(uid, u, day, nowDay) ==
    LET t == streak_transition(u, day, nowDay) IN
    CASE t = "start" ->
           [ user |-> streak_start(u), added |-> << >>, ret |-> 1 ]
      [] t = "noop" ->
           [ user |-> u, added |-> << >>, ret |-> u.current_streak ]
      [] t = "continue" ->
           [ user |-> streak_continue(u), added |-> << >>,
             ret |-> streak_continue(u).current_streak ]
      [] t = "recover" ->
           [ user |-> streak_recover(u),
             added |-> recovery_record(uid, streak_recover(u)),
             ret |-> streak_recover(u).current_streak ]
      [] OTHER ->
           [ user |-> streak_break(u),
             added |-> _record_broken_streak(uid, u, nowDay),
             ret |-> 1 ]

----------------------------------------------------------------------------
(* Activity catalogue (table activity): immutable for the engine *)

Activities ==
    [ a \in 1..6 |->
        [ skill |-> CASE a = 1 -> "reading" [] a = 3 -> "listening"
                      [] a = 4 -> "speaking" [] OTHER -> "writing",
          duration_minutes |-> IF a \in {3, 6} THEN 30 ELSE 10,
          points_reward |-> IF a = 1 THEN 10 ELSE 100 ] ]

activity_skill(c) == Activities[c.activity_id].skill

----------------------------------------------------------------------------
(* Completion repository (data/repositories/completion_repository.py) *)

RECURSIVE Reverse(_)
Reverse(s) == IF s = << >> THEN << >> ELSE Append(Reverse(Tail(s)), Head(s))

RECURSIVE SelectUser(_, _)
SelectUser(s, uid) ==
    IF s = << >> THEN << >>
    ELSE IF Head(s).user_id = uid THEN <<Head(s)>> \o SelectUser(Tail(s), uid)
    ELSE SelectUser(Tail(s), uid)

Take(s, n) == SubSeq(s, 1, Min(n, Len(s)))

\* get_user_completions: the user's rows, newest first, at most `limit`
get_user_completions(comps, uid, limit) == Take(Reverse(SelectUser(comps, uid)), limit)

----------------------------------------------------------------------------
(* Skill analyzer (core/algorithms/skill_analyzer.py) *)

RECURSIVE SelectSkill(_, _)
SelectSkill(s, skill) ==
    IF s = << >> THEN << >>
    ELSE IF activity_skill(Head(s)) = skill
         THEN <<Head(s)>> \o SelectSkill(Tail(s), skill)
    ELSE SelectSkill(Tail(s), skill)

RECURSIVE Sum(_)
Sum(s) == IF s = << >> THEN 0 ELSE Head(s) + Sum(Tail(s))

Scores(s) == [i \in 1..Len(s) |-> s[i].score]

\* _get_score_adjustment(avg_score) for avg_score = total / n: the first range
\* holding the mean, 0.0 when none does
RECURSIVE first_matching(_, _, _)
first_matching(table, total, n) ==
    IF table = << >> THEN 0
    ELSE IF Head(table)[1] * n <= total /\ total <= Head(table)[2] * n
         THEN Head(table)[3]
    ELSE first_matching(Tail(table), total, n)

_get_score_adjustment(total, n) == first_matching(SCORE_ADJUSTMENTS, total, n)

\* Mutant: the adjustment is added to the level instead of blended as a level
moving_average_adds(current_level, adjustment) ==
    current_level + (adjustment * SKILL_MOVING_AVERAGE_ALPHA) \div Unit

\* Lines 71-74: the moving average, the adjustment blended as a level
moving_average(current_level, adjustment) ==
    (current_level * (Unit - SKILL_MOVING_AVERAGE_ALPHA)
       + adjustment * SKILL_MOVING_AVERAGE_ALPHA) \div Unit

Abs(x) == IF x < 0 THEN -x ELSE x

\* Mutant: the change of one update is not clipped
clamp_change_none(current_level, new_level) == new_level

\* Lines 76-80: the change of one update clipped to +-max_change
clamp_change(current_level, new_level) ==
    IF Abs(new_level - current_level) > SKILL_MAX_CHANGE_PER_UPDATE
    THEN current_level + (IF new_level - current_level > 0
                          THEN SKILL_MAX_CHANGE_PER_UPDATE
                          ELSE -SKILL_MAX_CHANGE_PER_UPDATE)
    ELSE new_level

\* Mutant: the level is not held above 0.0
clamp_level_upper_only(level) == Min(9 * Unit, level)

\* max(0.0, min(9.0, level)): line 83, and again in User.set_skill_level
clamp_level(level) == Max(0, Min(9 * Unit, level))

set_skill_level(u, skill, level) == [u EXCEPT !.level[skill] = clamp_level(level)]

new_skill_level(current_level, adjustment) ==
    clamp_level(clamp_change(current_level, moving_average(current_level, adjustment)))

\* Mutant: one completion of the skill is enough for an update
insufficient_data_below_one(skill_completions) == Len(skill_completions) < 1

\* Lines 56-58: not enough completions of the skill
insufficient_data(skill_completions) ==
    Len(skill_completions) < SKILL_ANALYSIS_TRIGGER_COUNT

\* analyze_and_update_skill(user, skill): the user row, the skill_progress rows
\* added, and whether a SkillProgress is returned (ret = 1) or None
analyze_and_update_skill(uid, u, skill, comps) ==
    LET skill_completions == SelectSkill(get_user_completions(comps, uid, 100), skill)
        recent_scores == Scores(Take(skill_completions, 10))
        adjustment == _get_score_adjustment(Sum(recent_scores), Len(recent_scores))
        current_level == get_skill_level(u, skill)
        new_level == new_skill_level(current_level, adjustment)
    IN  IF insufficient_data(skill_completions)
        THEN [ user |-> u, added |-> << >>, ret |-> None ]
        ELSE [ user |-> set_skill_level(u, skill, new_level),
               added |-> << [ user_id |-> uid, skill |-> skill,
                              previous_level |-> current_level,
                              new_level |-> new_level,
                              adjustment |-> adjustment,
                              recent_scores |-> recent_scores,
                              trigger_count |-> Len(skill_completions) ] >>,
               ret |-> 1 ]

----------------------------------------------------------------------------
(* Incentive manager (core/algorithms/incentive_manager.py) *)

IncentiveType == <<"career_counseling_tier_1", "career_counseling_tier_2", "premium_content">>

\* Mutant: Tier 1 asks for all three thresholds
_should_unlock_career_counseling_t1_all(u) ==
    /\ u.current_streak >= INCENTIVE_TIER1_STREAK
    /\ u.total_activities >= INCENTIVE_TIER1_ACTIVITIES
    /\ u.total_points >= INCENTIVE_TIER1_POINTS

_should_unlock_career_counseling_t1(u) ==
    \/ u.current_streak >= INCENTIVE_TIER1_STREAK
    \/ u.total_activities >= INCENTIVE_TIER1_ACTIVITIES
    \/ u.total_points >= INCENTIVE_TIER1_POINTS

_should_unlock_career_counseling_t2(u) ==
    \/ u.current_streak >= INCENTIVE_TIER2_STREAK
    \/ u.total_activities >= INCENTIVE_TIER2_ACTIVITIES
    \/ u.total_points >= INCENTIVE_TIER2_POINTS

\* Mutant: one skill practised enough is taken for all four
_should_unlock_premium_content_any_skill(uid, u, comps) ==
    IF u.current_streak < INCENTIVE_PREMIUM_STREAK THEN FALSE
    ELSE \E skill \in SkillType :
           Len(SelectSkill(get_user_completions(comps, uid, 1000), skill))
             >= INCENTIVE_PREMIUM_SKILL_ATTEMPTS

_should_unlock_premium_content(uid, u, comps) ==
    IF u.current_streak < INCENTIVE_PREMIUM_STREAK THEN FALSE
    ELSE \A skill \in SkillType :
           Len(SelectSkill(get_user_completions(comps, uid, 1000), skill))
             >= INCENTIVE_PREMIUM_SKILL_ATTEMPTS

should_unlock(uid, u, comps, type) ==
    CASE type = "career_counseling_tier_1" -> _should_unlock_career_counseling_t1(u)
      [] type = "career_counseling_tier_2" -> _should_unlock_career_counseling_t2(u)
      [] OTHER -> _should_unlock_premium_content(uid, u, comps)

\* Mutant: the table has no unique constraint
violates_unique_never(unlocks, uid, type) == FALSE

\* UniqueConstraint("user_id", "incentive_type"): the insert is refused
violates_unique(unlocks, uid, type) ==
    \E i \in 1..Len(unlocks) :
        unlocks[i].user_id = uid /\ unlocks[i].incentive_type = type

\* Mutant: the incentive is unlocked again when the user has it already
_unlock_incentive_again(uid, unlocks, type, day) ==
    << [ user_id |-> uid, incentive_type |-> type, unlocked_at |-> day,
         claimed_at |-> NoDate ] >>

\* _unlock_incentive: the rows it adds, none when the user has the type already
_unlock_incentive(uid, unlocks, type, day) ==
    IF \E i \in 1..Len(unlocks) :
          unlocks[i].user_id = uid /\ unlocks[i].incentive_type = type
    THEN << >>
    ELSE << [ user_id |-> uid, incentive_type |-> type, unlocked_at |-> day,
              claimed_at |-> NoDate ] >>

\* check_and_unlock_incentives(user): the rows added, which are the list returned
RECURSIVE unlock_each(_, _, _, _, _, _)
unlock_each(types, uid, u, comps, unlocks, day) ==
    IF types = << >> THEN << >>
    ELSE LET new == IF should_unlock(uid, u, comps, Head(types))
                    THEN _unlock_incentive(uid, unlocks, Head(types), day)
                    ELSE << >>
         IN  new \o unlock_each(Tail(types), uid, u, comps, unlocks \o new, day)

check_and_unlock_incentives(uid, u, comps, unlocks, day) ==
    unlock_each(IncentiveType, uid, u, comps, unlocks, day)

----------------------------------------------------------------------------
(* Goal assignment (core/algorithms/goal_assignment.py) *)

RECURSIVE SelectSince(_, _)
SelectSince(s, cutoff) ==
    IF s = << >> THEN << >>
    ELSE IF Head(s).completed_at >= cutoff
         THEN <<Head(s)>> \o SelectSince(Tail(s), cutoff)
    ELSE SelectSince(Tail(s), cutoff)

\* get_recent_completions: the user's rows of the last `days` days, newest
\* first, at most `limit`
get_recent_completions(comps, uid, days, limit, day) ==
    Take(Reverse(SelectSince(SelectUser(comps, uid), day - days)), limit)

\* Mutant: the range for today begins after today's end
get_today_goal_after_today(goals, uid, day) ==
    {i \in 1..Len(goals) : goals[i].user_id = uid /\ goals[i].assigned_date > day}

\* get_today_goal: the rows .first() may return, those of the user assigned today
get_today_goal(goals, uid, day) ==
    {i \in 1..Len(goals) : goals[i].user_id = uid /\ goals[i].assigned_date = day}

\* get_goals_in_date_range
get_goals_in_date_range(goals, uid, start_date, end_date) ==
    {i \in 1..Len(goals) : /\ goals[i].user_id = uid
                           /\ goals[i].assigned_date >= start_date
                           /\ goals[i].assigned_date <= end_date}

\* _calculate_skill_gaps: a dict with all four skills, so never empty
_calculate_skill_gaps(u) ==
    [skill \in SkillType |-> Max(0, u.target_score - get_skill_level(u, skill))]

\* (utcnow() - completed_at).days counts whole periods of 24 hours: one fewer
\* than the calendar days between when the time of day now is the earlier
\* (part = 1)
days_since(completed_at, day, part) == Max(0, day - completed_at - part)

\* _calculate_recency_penalty
_calculate_recency_penalty(uid, skill, comps, day, part) ==
    LET skill_completions ==
            SelectSkill(get_recent_completions(comps, uid, 30, 10, day), skill)
    IN  IF skill_completions = << >>
        THEN 30 * GOAL_RECENCY_PENALTY
        ELSE days_since(skill_completions[1].completed_at, day, part)
               * GOAL_RECENCY_PENALTY

\* Mutant: the priority is the recency score alone
priority_without_gap(gap, recency_score) == recency_score

\* Line 152: the gap weighted, plus the recency score
priority(gap, recency_score) == (gap * GOAL_PRIORITY_SCALING) \div Unit + recency_score

\* _calculate_priority_scores; parts[skill] is the part of days_since
_calculate_priority_scores(uid, skill_gaps, comps, day, parts) ==
    [skill \in SkillType |->
        priority(skill_gaps[skill],
                 _calculate_recency_penalty(uid, skill, comps, day, parts[skill]))]

\* Mutant: every priority is halved when there was a goal yesterday
_apply_rotation_constraint_to_all(uid, priority_scores, goals, day) ==
    IF get_goals_in_date_range(goals, uid, day - 1, day - 1) = {}
    THEN priority_scores
    ELSE [skill \in SkillType |-> priority_scores[skill] \div 2]

\* _apply_rotation_constraint: the priority of yesterday's skills times 0.5
_apply_rotation_constraint(uid, priority_scores, goals, day) ==
    LET yesterday_goals == get_goals_in_date_range(goals, uid, day - 1, day - 1)
        yesterday_skills == {goals[i].target_skill : i \in yesterday_goals}
    IN  [skill \in SkillType |->
            IF skill \in yesterday_skills
            THEN priority_scores[skill] \div 2
            ELSE priority_scores[skill]]

\* Mutant: a later key with the same value replaces the best
RECURSIVE max_by_last(_, _, _)
max_by_last(keys, value, best) ==
    IF keys = << >> THEN best
    ELSE IF best = NoSkill \/ value[Head(keys)] >= value[best]
         THEN max_by_last(Tail(keys), value, Head(keys))
    ELSE max_by_last(Tail(keys), value, best)

\* max(d, key=d.get): the first key, in the dict's order, with the largest value
RECURSIVE max_by(_, _, _)
max_by(keys, value, best) ==
    IF keys = << >> THEN best
    ELSE IF best = NoSkill \/ value[Head(keys)] > value[best]
         THEN max_by(Tail(keys), value, Head(keys))
    ELSE max_by(Tail(keys), value, best)

\* _select_target_skill: NoSkill when no priority is above zero
_select_target_skill(priority_scores) ==
    LET non_zero_scores == SelectSeq(SkillOrder, LAMBDA k : priority_scores[k] > 0)
    IN  max_by(non_zero_scores, priority_scores, NoSkill)

\* Mutant: the duration of an activity is not looked at
_find_eligible_activities_any_duration(skill) ==
    {a \in DOMAIN Activities : Activities[a].skill = skill}

\* _find_eligible_activities
_find_eligible_activities(skill) ==
    {a \in DOMAIN Activities :
        /\ Activities[a].skill = skill
        /\ DAILY_GOAL_DURATION_MIN <= Activities[a].duration_minutes
        /\ Activities[a].duration_minutes <= DAILY_GOAL_DURATION_MAX}

\* _weighted_activity_selection: the activities random.choices may return,
\* those of weight above zero (1 when attempted in the last 7 days, else 3)
_weighted_activity_selection(uid, activities, comps, day) ==
    LET recent_completions == get_recent_completions(comps, uid, 7, 20, day)
        recent_activity_ids ==
            {recent_completions[i].activity_id : i \in 1..Len(recent_completions)}
        weight == [a \in activities |-> IF a \in recent_activity_ids THEN 1 ELSE 3]
    IN  {a \in activities : weight[a] > 0}

NoGoal ==
    [ user_id |-> None, activity_id |-> None, assigned_date |-> NoDate,
      target_skill |-> NoSkill, skill_gap |-> None, priority_score |-> None ]

\* What assign_daily_goal computes before it creates a row, when the user has
\* no goal today
goal_plan(uid, u, comps, goals, day, parts) ==
    LET skill_gaps == _calculate_skill_gaps(u)
        unadjusted == _calculate_priority_scores(uid, skill_gaps, comps, day, parts)
        priority_scores == _apply_rotation_constraint(uid, unadjusted, goals, day)
        target_skill == _select_target_skill(priority_scores)
        eligible_activities ==
            IF target_skill = NoSkill THEN {} ELSE _find_eligible_activities(target_skill)
    IN  [ skill_gaps |-> skill_gaps,
          recency |-> [skill \in SkillType |->
                         _calculate_recency_penalty(uid, skill, comps, day, parts[skill])],
          unadjusted |-> unadjusted,
          priority_scores |-> priority_scores, target_skill |-> target_skill,
          selected |-> _weighted_activity_selection(uid, eligible_activities, comps, day) ]

\* The row goal_repo.create is given (lines 94-101)
new_goal(uid, plan, selected_activity, nowDay) ==
    [ user_id |-> uid, activity_id |-> selected_activity, assigned_date |-> nowDay,
      target_skill |-> plan.target_skill,
      skill_gap |-> plan.skill_gaps[plan.target_skill],
      priority_score |-> plan.priority_scores[plan.target_skill],
      completed |-> FALSE ]

----------------------------------------------------------------------------
(* Leaderboard ranker (core/algorithms/leaderboard_ranker.py).  Consistency
   scores are in tenths, the precision round(total_score, 1) keeps. *)

TimelineGroup == <<"short_term", "medium_term", "long_term">>

_get_score_groups == <<50000, 60000, 65000, 70000, 75000, 80000, 85000, 90000>>

\* The cohorts in the order calculate_leaderboards visits them
Cohorts ==
    [ k \in 1..(Len(_get_score_groups) * Len(TimelineGroup)) |->
        [ target_score_group |-> _get_score_groups[((k - 1) \div Len(TimelineGroup)) + 1],
          timeline_group |-> TimelineGroup[((k - 1) % Len(TimelineGroup)) + 1] ] ]

\* The orders in which a query with no ORDER BY can return the users
query_orders(us) ==
    {o \in [1..Cardinality(DOMAIN us) -> DOMAIN us] :
        \A a, b \in 1..Cardinality(DOMAIN us) : a # b => o[a] # o[b]}

\* Mutant: the lower end of the range is left out
get_users_by_target_score_group_half_open(us, order, min_score, max_score) ==
    SelectSeq(order, LAMBDA uid : /\ us[uid].target_score > min_score
                                  /\ us[uid].target_score <= max_score)

\* UserRepository.get_users_by_target_score_group(min_score, max_score)
get_users_by_target_score_group(us, order, min_score, max_score) ==
    SelectSeq(order, LAMBDA uid : /\ us[uid].target_score >= min_score
                                  /\ us[uid].target_score <= max_score)

\* The users of a cohort (lines 75-77)
cohort_users(us, order, target_score_group, timeline_group) ==
    LET min_score == target_score_group - 5000
        users_in_range == get_users_by_target_score_group(us, order, min_score,
                                                          target_score_group)
    IN  SelectSeq(users_in_range,
                  LAMBDA uid : us[uid].preparation_timeline = timeline_group)

\* CompletionRepository.get_active_days(user_id, days).  A row made exactly
\* `days` days back counts or not by the time of day.
get_active_days(comps, uid, days, day) ==
    Cardinality({comps[i].completed_at :
                   i \in {j \in 1..Len(comps) : /\ comps[j].user_id = uid
                                               /\ comps[j].completed_at >= day - days}})

\* GoalRepository.get_completion_rate(user_id, days): completed over total
get_completion_rate(goals, uid, days, day) ==
    LET period == {i \in 1..Len(goals) : /\ goals[i].user_id = uid
                                         /\ goals[i].assigned_date >= day - days}
        total_goals == Cardinality(period)
        completed_goals == Cardinality({i \in period : goals[i].completed})
    IN  IF total_goals = 0 THEN [ completed |-> 0, total |-> 1 ]
        ELSE [ completed |-> completed_goals, total |-> total_goals ]

\* round(num / den), the tie to the even neighbour
round_to_nearest(num, den) ==
    LET q == num \div den
        r == num % den
    IN  IF 2 * r < den THEN q
        ELSE IF 2 * r > den THEN q + 1
        ELSE IF q % 2 = 0 THEN q ELSE q + 1

\* _calculate_consistency_score(user), in tenths:
\*   active_days / PERIOD * 100 * 0.4 + min(streak / 30, 1) * 100 * 0.3
\*     + completion_rate * 100 * 0.3
_calculate_consistency_score(uid, u, comps, goals, day) ==
    LET active_days == get_active_days(comps, uid, LEADERBOARD_PERIOD_DAYS, day)
        streak == Min(u.current_streak, 30)
        completion_rate == get_completion_rate(goals, uid, LEADERBOARD_PERIOD_DAYS, day)
        den == 10 * LEADERBOARD_PERIOD_DAYS * 30 * completion_rate.total
        num == active_days * LEADERBOARD_ACTIVE_DAYS_WEIGHT * 30 * completion_rate.total
               + streak * LEADERBOARD_STREAK_WEIGHT * LEADERBOARD_PERIOD_DAYS
                   * completion_rate.total
               + completion_rate.completed * LEADERBOARD_COMPLETION_WEIGHT
                   * LEADERBOARD_PERIOD_DAYS * 30
    IN  round_to_nearest(num, den)

\* Lines 84-88: the users with a positive score, in the order of the query
RECURSIVE scored_entries(_, _, _, _, _)
scored_entries(uids, us, comps, goals, day) ==
    IF uids = << >> THEN << >>
    ELSE LET score == _calculate_consistency_score(Head(uids), us[Head(uids)], comps,
                                                   goals, day)
             rest == scored_entries(Tail(uids), us, comps, goals, day)
         IN  IF score > 0 THEN << <<Head(uids), score>> >> \o rest ELSE rest

\* Mutant: the entries are left in the order of the query
sort_by_score_unsorted(entries) == entries

\* entries.sort(key=score, reverse=True): stable, equal scores keep their order
RECURSIVE sort_by_score(_)
sort_by_score(entries) ==
    IF entries = << >> THEN << >>
    ELSE LET sorted == sort_by_score(SubSeq(entries, 1, Len(entries) - 1))
             last == entries[Len(entries)]
             ahead == Cardinality({i \in 1..Len(sorted) : sorted[i][2] >= last[2]})
         IN  SubSeq(sorted, 1, ahead) \o <<last>> \o SubSeq(sorted, ahead + 1, Len(sorted))

\* Mutant: the deletion is committed as soon as it is made
delete_old_entries_committed(entries, target_score_group, timeline_group) ==
    LET kept == SelectSeq(entries, LAMBDA e : ~(/\ e.target_score_group = target_score_group
                                                /\ e.timeline_group = timeline_group))
    IN  [ session |-> kept, committed |-> kept ]

\* LeaderboardRepository.delete_old_entries: a DELETE flushed to the session's
\* transaction and not committed; the table as the session sees it and as
\* the other sessions see it
delete_old_entries(entries, target_score_group, timeline_group) ==
    LET kept == SelectSeq(entries, LAMBDA e : ~(/\ e.target_score_group = target_score_group
                                                /\ e.timeline_group = timeline_group))
    IN  [ session |-> kept, committed |-> entries ]

\* Lines 98-120: the rows added, ranked from 1
new_entries(ranked, us, comps, goals, day, target_score_group, timeline_group) ==
    [ k \in 1..Len(ranked) |->
        [ user_id |-> ranked[k][1],
          target_score_group |-> target_score_group,
          timeline_group |-> timeline_group,
          rank |-> k,
          previous_rank |-> None,
          consistency_score |-> ranked[k][2],
          active_days |-> get_active_days(comps, ranked[k][1], LEADERBOARD_PERIOD_DAYS, day),
          current_streak |-> us[ranked[k][1]].current_streak,
          period_days |-> LEADERBOARD_PERIOD_DAYS,
          calculated_at |-> day ] ]

\* _calculate_group_leaderboard(target_score_group, timeline_group): whether
\* it wrote (it returns before the deletion when the cohort has no user), the
\* table after the deletion, the rows it adds
_calculate_group_leaderboard(entries, us, order, comps, goals, day, cohort) ==
    LET users_in_group == cohort_users(us, order, cohort.target_score_group,
                                       cohort.timeline_group)
        ranked == sort_by_score(scored_entries(users_in_group, us, comps, goals, day))
    IN  IF users_in_group = << >>
        THEN [ wrote |-> FALSE, deleted |-> [ session |-> entries, committed |-> entries ],
               added |-> << >> ]
        ELSE [ wrote |-> TRUE,
               deleted |-> delete_old_entries(entries, cohort.target_score_group,
                                              cohort.timeline_group),
               added |-> new_entries(ranked, us, comps, goals, day,
                                     cohort.target_score_group, cohort.timeline_group) ]

\* The rows the cohorts from k on add, in the order they are visited
RECURSIVE added_from(_, _, _, _, _, _, _)
added_from(k, entries, us, order, comps, goals, day) ==
    IF k > Len(Cohorts) THEN << >>
    ELSE _calculate_group_leaderboard(entries, us, order, comps, goals, day,
                                      Cohorts[k]).added
           \o added_from(k + 1, entries, us, order, comps, goals, day)

\* calculate_leaderboards(): the table after the loop over the cohorts, how
\* many of its rows were there before, and the number of entries created.
\* The deletion for a cohort removes rows of that cohort only and its new
\* rows go to the end of the table, so the loop leaves the rows of the
\* cohorts it did not write, then the rows added cohort by cohort.
calculate_leaderboards(entries, us, order, comps, goals, day) ==
    LET written == {k \in 1..Len(Cohorts) :
                      _calculate_group_leaderboard(entries, us, order, comps, goals, day,
                                                   Cohorts[k]).wrote}
        kept == SelectSeq(entries,
                          LAMBDA e : \A k \in written :
                             ~(/\ e.target_score_group = Cohorts[k].target_score_group
                               /\ e.timeline_group = Cohorts[k].timeline_group))
        added == added_from(1, entries, us, order, comps, goals, day)
    IN  [ entries |-> kept \o added, kept |-> Len(kept), total_entries |-> Len(added) ]

----------------------------------------------------------------------------
(* The record of a call *)

NoCompletion ==
    [ user_id |-> None, activity_id |-> None, score |-> None,
      points_earned |-> None, completed_at |-> NoDate ]

\* op: the operation; pre: the user row it read (NoUser when there is none);
\* day: the day it started on; now: the day its last reading of the clock
\* showed; n_*: the sizes of the tables before it; ret: the value returned
\* (None for None or for a raise); raised: the exception.
Call(op, uid, nowDay, ret, raised, skill, completion) ==
    [ op |-> op, user_id |-> uid, pre |-> get_by_id(uid), day |-> today, now |-> nowDay,
      n_history |-> Len(streak_history), n_progress |-> Len(skill_progress),
      n_unlocks |-> Len(incentive_unlocks), n_completions |-> Len(completions),
      ret |-> ret, raised |-> raised, skill |-> skill, completion |-> completion ]

\* No request is under way
Procs == {1, 2}
NoRequest == [ op |-> "" ]
Idle == [p \in Procs |-> NoRequest]

----------------------------------------------------------------------------
(* Operations *)

\* The day the store is set up: a Sunday
StartDay == 6

\* The completions made since the store was set up
new_completions ==
    {i \in 1..Len(completions) : completions[i].completed_at >= StartDay}

\* The clock passes midnight
Tick ==
    /\ UNCHANGED leaderboard_entries
    /\ today < MaxDay
    /\ today' = today + 1
    /\ UNCHANGED <<users, completions, streak_history, skill_progress,
                   incentive_unlocks, last_call>>
    /\ UNCHANGED <<daily_goals, inflight>>

\* UserService.update_last_activity(user_id)
UpdateLastActivity(uid) ==
    /\ UNCHANGED leaderboard_entries
    /\ IF uid \notin DOMAIN users
       THEN /\ last_call' = Call("update_last_activity", uid, today, None, "UserNotFoundError",
                                 "", NoCompletion)
            /\ UNCHANGED users
       ELSE /\ users' = [users EXCEPT ![uid].last_activity_date = today]
            /\ last_call' = Call("update_last_activity", uid, today, None, "", "", NoCompletion)
    /\ UNCHANGED <<today, completions, streak_history, skill_progress, incentive_unlocks>>
    /\ UNCHANGED <<daily_goals, inflight>>

\* The days the clock can show at update_streak's second reading of it (line
\* 118, reached when days_gap = 2): the day of the first reading, or the next
\* one when midnight passes between the two.
second_reading(u, day) ==
    IF u.last_activity_date # NoDate /\ days_gap(day, u) = 2 /\ day < MaxDay
    THEN {day, day + 1}
    ELSE {day}

\* UserService.add_points(user_id, points)
AddPoints(uid, points) ==
    /\ IF uid \notin DOMAIN users
       THEN /\ last_call' = Call("add_points", uid, today, None, "UserNotFoundError",
                                 NoSkill, NoCompletion)
            /\ UNCHANGED users
       ELSE /\ users[uid].total_points + points <= MaxPoints
            /\ users[uid].total_points + points >= -MaxPoints
            /\ users' = [users EXCEPT ![uid].total_points = users[uid].total_points + points]
            /\ last_call' = Call("add_points", uid, today, uid, "", NoSkill, NoCompletion)
    /\ UNCHANGED <<today, completions, streak_history, skill_progress, incentive_unlocks,
                   daily_goals, leaderboard_entries, inflight>>

\* UserService.increment_activity_count(user_id)
IncrementActivityCount(uid) ==
    /\ IF uid \notin DOMAIN users
       THEN /\ last_call' = Call("increment_activity_count", uid, today, None,
                                 "UserNotFoundError", NoSkill, NoCompletion)
            /\ UNCHANGED users
       ELSE /\ users[uid].total_activities < MaxActivities
            /\ users' = [users EXCEPT ![uid].total_activities =
                                         users[uid].total_activities + 1]
            /\ last_call' = Call("increment_activity_count", uid, today, uid, "", NoSkill,
                                 NoCompletion)
    /\ UNCHANGED <<today, completions, streak_history, skill_progress, incentive_unlocks,
                   daily_goals, leaderboard_entries, inflight>>

\* The activity counter stays in the model's range: record_activity_completion
\* raises it up to MaxActivities only, or onto a threshold of the incentives
within_activity_bound(before) ==
    \/ before < MaxActivities
    \/ before + 1 \in {INCENTIVE_TIER1_ACTIVITIES, INCENTIVE_TIER2_ACTIVITIES}

\* The streak counter stays in the model's range: it grows up to MaxStreak only
within_streak_bound(before, after) == after <= MaxStreak \/ after <= before

\* StreakCalculator.update_streak(user), called on a user of the store
UpdateStreak(uid) ==
    /\ UNCHANGED leaderboard_entries
    /\ uid \in DOMAIN users
    /\ \E nowDay \in second_reading(users[uid], today) :
         LET r == update_streak(uid, users[uid], today, nowDay) IN
         /\ within_streak_bound(users[uid].current_streak, r.user.current_streak)
         /\ Len(streak_history) + Len(r.added) <= MaxHistory
         /\ users' = [users EXCEPT ![uid] = r.user]
         /\ streak_history' = streak_history \o r.added
         /\ today' = nowDay
         /\ last_call' = Call("update_streak", uid, nowDay, r.ret, "", "", NoCompletion)
    /\ UNCHANGED <<completions, skill_progress, incentive_unlocks>>
    /\ UNCHANGED <<daily_goals, inflight>>

\* Mutant: the score is not validated
complete_activity_error_any_score(uid, activity_id, score) ==
    IF activity_id \notin DOMAIN Activities THEN "ActivityNotFoundError"
    ELSE IF uid \notin DOMAIN users THEN "IntegrityError"
    ELSE ""

\* ActivityService.complete_activity(user_id, activity_id, score)
complete_activity_error(uid, activity_id, score) ==
    IF activity_id \notin DOMAIN Activities THEN "ActivityNotFoundError"
    ELSE IF ~(0 <= score /\ score <= 100) THEN "ValueError"
    ELSE IF uid \notin DOMAIN users THEN "IntegrityError"
    ELSE ""

points_earned(activity_id, score) ==
    (Activities[activity_id].points_reward * score) \div 100

CompleteActivity(uid, activity_id, score) ==
    /\ UNCHANGED leaderboard_entries
    /\ Cardinality(new_completions) < MaxCompletions
    /\ LET err == complete_activity_error(uid, activity_id, score) IN
       IF err # ""
       THEN /\ last_call' = Call("complete_activity", uid, today, None, err, "",
                                 [NoCompletion EXCEPT !.user_id = uid,
                                                      !.activity_id = activity_id,
                                                      !.score = score])
            /\ UNCHANGED completions
       ELSE LET c == [ user_id |-> uid, activity_id |-> activity_id, score |-> score,
                       points_earned |-> points_earned(activity_id, score),
                       completed_at |-> today ]
            IN  /\ completions' = Append(completions, c)
                /\ last_call' = Call("complete_activity", uid, today, Len(completions) + 1, "",
                                     "", c)
    /\ UNCHANGED <<today, users, streak_history, skill_progress, incentive_unlocks>>
    /\ UNCHANGED <<daily_goals, inflight>>

\* SkillAnalyzer.analyze_and_update_skill(user, skill), called on a user of the store
AnalyzeAndUpdateSkill(uid, skill) ==
    /\ UNCHANGED leaderboard_entries
    /\ uid \in DOMAIN users
    /\ LET r == analyze_and_update_skill(uid, users[uid], skill, completions) IN
       /\ Len(skill_progress) + Len(r.added) <= MaxProgress
       /\ users' = [users EXCEPT ![uid] = r.user]
       /\ skill_progress' = skill_progress \o r.added
       /\ last_call' = Call("analyze_and_update_skill", uid, today, r.ret, "", skill, NoCompletion)
    /\ UNCHANGED <<today, completions, streak_history, incentive_unlocks>>
    /\ UNCHANGED <<daily_goals, inflight>>

\* ProgressService.record_activity_completion(user_id, completion), lines 66-100:
\* the counters, then the streak, then the skill analysis, then the incentives
record_metrics(u, completion) ==
    [u EXCEPT !.total_points = u.total_points + completion.points_earned,
              !.total_activities = u.total_activities + 1,
              !.last_activity_date = completion.completed_at]

skill_analysis_due(u) == u.total_activities % SKILL_ANALYSIS_TRIGGER_COUNT = 0

\* Mutant: the incentives are evaluated on the row as it was loaded
evaluate_incentives_first(uid, loaded, updated, comps, unlocks, day) ==
    check_and_unlock_incentives(uid, loaded, comps, unlocks, day)

\* Line 92: the incentives are evaluated last, on the user object the
\* counters, the streak and the skill analysis have updated
evaluate_incentives(uid, loaded, updated, comps, unlocks, day) ==
    check_and_unlock_incentives(uid, updated, comps, unlocks, day)

\* What a call of record_activity_completion adds to its record: whether it
\* called analyze_and_update_skill (lines 78-82) and how many incentives
\* check_and_unlock_incentives returned to it (line 92)
RecordCall(skill_analyzer_called, n_unlocked) ==
    [ skill_analyzer_called |-> skill_analyzer_called, n_unlocked |-> n_unlocked ]

RecordActivityCompletion(uid, i) ==
    /\ UNCHANGED leaderboard_entries
    /\ i \in new_completions
    /\ IF uid \notin DOMAIN users
       THEN /\ last_call' = Call("record_activity_completion", uid, today, None, "ValueError",
                                 "", completions[i])
            /\ UNCHANGED <<today, users, streak_history, skill_progress, incentive_unlocks>>
       ELSE /\ within_activity_bound(users[uid].total_activities)
            /\ LET completion == completions[i]
                   u1 == record_metrics(users[uid], completion)
               IN
               \E nowDay \in second_reading(u1, today) :
                 LET st == update_streak(uid, u1, today, nowDay)
                     sk == IF skill_analysis_due(st.user)
                           THEN analyze_and_update_skill(uid, st.user,
                                                         activity_skill(completion),
                                                         completions)
                           ELSE [ user |-> st.user, added |-> << >>, ret |-> None ]
                     un == evaluate_incentives(uid, users[uid], sk.user, completions,
                                               incentive_unlocks, nowDay)
                 IN
                 /\ within_streak_bound(users[uid].current_streak, st.user.current_streak)
                 /\ Len(streak_history) + Len(st.added) <= MaxHistory
                 /\ Len(skill_progress) + Len(sk.added) <= MaxProgress
                 /\ users' = [users EXCEPT ![uid] = sk.user]
                 /\ streak_history' = streak_history \o st.added
                 /\ skill_progress' = skill_progress \o sk.added
                 /\ incentive_unlocks' = incentive_unlocks \o un
                 /\ today' = nowDay
                 /\ last_call' = Call("record_activity_completion", uid, nowDay, st.ret, "",
                                      IF sk.ret = None THEN "" ELSE activity_skill(completion),
                                      completion)
                                 @@ RecordCall(skill_analysis_due(st.user), Len(un))
    /\ UNCHANGED completions
    /\ UNCHANGED <<daily_goals, inflight>>

\* The parts days_since may take for each skill: the time of day can only
\* matter for a skill last completed on an earlier day
possible_parts(uid, comps, day) ==
    {parts \in [SkillType -> {0, 1}] :
        \A skill \in SkillType :
            LET skill_completions ==
                    SelectSkill(get_recent_completions(comps, uid, 30, 10, day), skill)
            IN  parts[skill] = 1
                => (skill_completions # << >> /\ skill_completions[1].completed_at < day)}

\* The clock at goal_repo.create (line 97): midnight may have passed since
\* the call read today's goal
clock_readings(day) == IF day < MaxDay THEN {day, day + 1} ELSE {day}

NoPlan ==
    [ skill_gaps |-> << >>, recency |-> << >>, unadjusted |-> << >>,
      priority_scores |-> << >>,
      target_skill |-> NoSkill, selected |-> {} ]

\* What a call of assign_daily_goal adds to its record: the number of goals
\* before it, today's goals of the user before it, how it ended ("existing",
\* "none" or "created"), what it computed and the goal it returned
GoalCall(uid, kind, plan, goal) ==
    [ n_goals |-> Len(daily_goals),
      todays |-> {i \in 1..Len(daily_goals) :
                    daily_goals[i].user_id = uid /\ daily_goals[i].assigned_date = today},
      yesterdays |-> {i \in 1..Len(daily_goals) :
                        /\ daily_goals[i].user_id = uid
                        /\ daily_goals[i].assigned_date = today - 1},
      kind |-> kind, plan |-> plan, goal |-> goal ]

\* GoalAssignmentAlgorithm.assign_daily_goal(user)
AssignDailyGoal(uid) ==
    /\ UNCHANGED leaderboard_entries
    /\ uid \in DOMAIN users
    /\ LET todays == get_today_goal(daily_goals, uid, today) IN
       IF todays # {}
       THEN /\ \E i \in todays :
                 last_call' = Call("assign_daily_goal", uid, today, i, "", NoSkill,
                                   NoCompletion)
                              @@ GoalCall(uid, "existing", NoPlan, daily_goals[i])
            /\ UNCHANGED <<today, daily_goals>>
       ELSE \E parts \in possible_parts(uid, completions, today) :
              LET plan == goal_plan(uid, users[uid], completions, daily_goals, today, parts)
              IN  IF plan.selected = {}
                  THEN /\ last_call' = Call("assign_daily_goal", uid, today, None, "",
                                            plan.target_skill, NoCompletion)
                                       @@ GoalCall(uid, "none", plan, NoGoal)
                       /\ UNCHANGED <<today, daily_goals>>
                  ELSE /\ Len(daily_goals) < MaxGoals
                       /\ \E selected_activity \in plan.selected,
                             nowDay \in clock_readings(today) :
                            LET goal == new_goal(uid, plan, selected_activity, nowDay) IN
                            /\ daily_goals' = Append(daily_goals, goal)
                            /\ today' = nowDay
                            /\ last_call' = Call("assign_daily_goal", uid, nowDay,
                                                 Len(daily_goals) + 1, "",
                                                 plan.target_skill, NoCompletion)
                                            @@ GoalCall(uid, "created", plan, goal)
    /\ UNCHANGED <<users, completions, streak_history, skill_progress,
                   incentive_unlocks, inflight>>

\* IncentiveManager.check_and_unlock_incentives(user); ret is the length of
\* the list returned
CheckAndUnlockIncentives(uid) ==
    /\ UNCHANGED leaderboard_entries
    /\ uid \in DOMAIN users
    /\ LET un == check_and_unlock_incentives(uid, users[uid], completions,
                                             incentive_unlocks, today)
       IN  /\ incentive_unlocks' = incentive_unlocks \o un
           /\ last_call' = Call("check_and_unlock_incentives", uid, today, Len(un), "",
                                NoSkill, NoCompletion)
    /\ UNCHANGED <<today, users, completions, streak_history, skill_progress,
                   daily_goals, inflight>>

\* IncentiveManager.claim_incentive(unlock_id): the id of a row is its place
\* in the table; ret is the id of the row returned
ClaimIncentive(unlock_id) ==
    /\ UNCHANGED leaderboard_entries
    /\ IF unlock_id \notin 1..Len(incentive_unlocks)
       THEN /\ last_call' = Call("claim_incentive", None, today, None, "", NoSkill,
                                 NoCompletion)
            /\ UNCHANGED incentive_unlocks
       ELSE /\ incentive_unlocks' =
                 [incentive_unlocks EXCEPT ![unlock_id].claimed_at = today]
            /\ last_call' = Call("claim_incentive", incentive_unlocks[unlock_id].user_id,
                                 today, unlock_id, "", NoSkill, NoCompletion)
    /\ UNCHANGED <<today, users, completions, streak_history, skill_progress,
                   daily_goals, inflight>>

\* UserService.update_user_profile(user_id, target_score=...); None stands
\* for a call that does not pass the field
UpdateUserProfile(uid, target_score) ==
    /\ IF uid \notin DOMAIN users
       THEN /\ last_call' = Call("update_user_profile", uid, today, None,
                                 "UserNotFoundError", NoSkill, NoCompletion)
            /\ UNCHANGED users
       ELSE IF target_score # None /\ ~(0 <= target_score /\ target_score <= 9 * Unit)
       THEN /\ last_call' = Call("update_user_profile", uid, today, None, "ValueError",
                                 NoSkill, NoCompletion)
            /\ UNCHANGED users
       ELSE /\ users' = IF target_score = None THEN users
                        ELSE [users EXCEPT ![uid].target_score = target_score]
            /\ last_call' = Call("update_user_profile", uid, today, uid, "", NoSkill,
                                 NoCompletion)
    /\ UNCHANGED <<today, completions, streak_history, skill_progress, incentive_unlocks,
                   daily_goals, leaderboard_entries, inflight>>

\* What a leaderboard run adds to the record of the call: the number of rows
\* it left in the table
LeaderboardCall(n_kept) == [ n_kept |-> n_kept ]

\* LeaderboardRanker.calculate_leaderboards(); ret is the number of entries
\* created
CalculateLeaderboards ==
    /\ \E order \in query_orders(users) :
         LET r == calculate_leaderboards(leaderboard_entries, users, order, completions,
                                         daily_goals, today)
         IN  /\ leaderboard_entries' = r.entries
             /\ last_call' = Call("calculate_leaderboards", None, today, r.total_entries,
                                  "", NoSkill, NoCompletion) @@ LeaderboardCall(r.kept)
    /\ UNCHANGED <<today, users, completions, streak_history, skill_progress,
                   incentive_unlocks, daily_goals, inflight>>

----------------------------------------------------------------------------
(* Concurrent requests.  Each request has its own session; what it has
   committed is in the tables, what it has read and is about to write is in
   inflight.  A request takes one step for the queries that lead to a write
   and one step for each commit. *)

Failed == [ op |-> "failed" ]

InFlight(op) == {p \in Procs : inflight[p].op = op}

\* assign_daily_goal, lines 58-91: today's goal is read and the goal chosen
AssignBegin(p, uid) ==
    /\ UNCHANGED leaderboard_entries
    /\ inflight[p] = NoRequest
    /\ uid \in DOMAIN users
    /\ LET todays == get_today_goal(daily_goals, uid, today) IN
       IF todays # {}
       THEN /\ \E i \in todays :
                 last_call' = Call("assign_daily_goal", uid, today, i, "", NoSkill,
                                   NoCompletion)
                              @@ GoalCall(uid, "existing", NoPlan, daily_goals[i])
            /\ UNCHANGED inflight
       ELSE \E parts \in possible_parts(uid, completions, today) :
              LET plan == goal_plan(uid, users[uid], completions, daily_goals, today, parts)
              IN  IF plan.selected = {}
                  THEN /\ last_call' = Call("assign_daily_goal", uid, today, None, "",
                                            plan.target_skill, NoCompletion)
                                       @@ GoalCall(uid, "none", plan, NoGoal)
                       /\ UNCHANGED inflight
                  ELSE /\ Len(daily_goals) + Cardinality(InFlight("assign_daily_goal"))
                            < MaxGoals
                       /\ \E selected_activity \in plan.selected :
                            inflight' = [inflight EXCEPT ![p] =
                                [ op |-> "assign_daily_goal", user_id |-> uid,
                                  plan |-> plan,
                                  selected_activity |-> selected_activity ]]
                       /\ UNCHANGED last_call
    /\ UNCHANGED <<today, users, completions, streak_history, skill_progress,
                   incentive_unlocks, daily_goals>>

\* assign_daily_goal, lines 93-102: the goal is created and committed
AssignCreate(p) ==
    /\ UNCHANGED leaderboard_entries
    /\ inflight[p].op = "assign_daily_goal"
    /\ LET r == inflight[p]
           goal == new_goal(r.user_id, r.plan, r.selected_activity, today)
       IN  /\ daily_goals' = Append(daily_goals, goal)
           /\ last_call' = Call("assign_daily_goal", r.user_id, today,
                                Len(daily_goals) + 1, "", r.plan.target_skill,
                                NoCompletion)
                           @@ [GoalCall(r.user_id, "created", r.plan, goal)
                                 EXCEPT !.todays = {}]
    /\ inflight' = [inflight EXCEPT ![p] = NoRequest]
    /\ UNCHANGED <<today, users, completions, streak_history, skill_progress,
                   incentive_unlocks>>

\* analyze_and_update_skill, lines 49-87: the level is set and committed
AnalyzeBegin(p, uid, skill) ==
    /\ UNCHANGED leaderboard_entries
    /\ inflight[p] = NoRequest
    /\ uid \in DOMAIN users
    /\ LET r == analyze_and_update_skill(uid, users[uid], skill, completions) IN
       IF r.ret = None
       THEN /\ last_call' = Call("analyze_and_update_skill", uid, today, None, "", skill,
                                 NoCompletion)
            /\ UNCHANGED <<users, inflight>>
       ELSE /\ Len(skill_progress) + Cardinality(InFlight("analyze_and_update_skill"))
                 < MaxProgress
            /\ users' = [users EXCEPT ![uid] = r.user]
            /\ inflight' = [inflight EXCEPT ![p] =
                              [ op |-> "analyze_and_update_skill", user_id |-> uid,
                                skill |-> skill, progress |-> r.added[1] ]]
            /\ UNCHANGED last_call
    /\ UNCHANGED <<today, completions, streak_history, skill_progress,
                   incentive_unlocks, daily_goals>>

\* analyze_and_update_skill, lines 90-96: the SkillProgress is added and
\* committed
AnalyzeFinish(p) ==
    /\ UNCHANGED leaderboard_entries
    /\ inflight[p].op = "analyze_and_update_skill"
    /\ skill_progress' = Append(skill_progress, inflight[p].progress)
    /\ last_call' = Call("analyze_and_update_skill", inflight[p].user_id, today, 1, "",
                         inflight[p].skill, NoCompletion)
    /\ inflight' = [inflight EXCEPT ![p] = NoRequest]
    /\ UNCHANGED <<today, users, completions, streak_history, incentive_unlocks,
                   daily_goals>>

\* analyze_and_update_skill fails after its first commit: the second commit
\* raises, or the request is killed
AnalyzeFail(p) ==
    /\ UNCHANGED leaderboard_entries
    /\ inflight[p].op = "analyze_and_update_skill"
    /\ last_call' = Call("analyze_and_update_skill", inflight[p].user_id, today, None,
                         "OperationalError", inflight[p].skill, NoCompletion)
    /\ inflight' = [inflight EXCEPT ![p] = Failed]
    /\ UNCHANGED <<today, users, completions, streak_history, skill_progress,
                   incentive_unlocks, daily_goals>>

\* check_and_unlock_incentives up to its next insert: the types still to be
\* checked, from the first whose criteria hold and that _unlock_incentive does
\* not find unlocked
RECURSIVE next_unlock(_, _, _, _, _)
next_unlock(types, uid, u, comps, unlocks) ==
    IF types = << >> THEN << >>
    ELSE IF /\ should_unlock(uid, u, comps, Head(types))
            /\ _unlock_incentive(uid, unlocks, Head(types), today) # << >>
         THEN types
    ELSE next_unlock(Tail(types), uid, u, comps, unlocks)

\* check_and_unlock_incentives from its start to its first insert
UnlockBegin(p, uid) ==
    /\ UNCHANGED leaderboard_entries
    /\ inflight[p] = NoRequest
    /\ uid \in DOMAIN users
    /\ LET types == next_unlock(IncentiveType, uid, users[uid], completions,
                                incentive_unlocks)
       IN  IF types = << >>
           THEN /\ last_call' = Call("check_and_unlock_incentives", uid, today, 0, "",
                                     NoSkill, NoCompletion)
                /\ UNCHANGED inflight
           ELSE /\ inflight' = [inflight EXCEPT ![p] =
                                  [ op |-> "check_and_unlock_incentives",
                                    user_id |-> uid, types |-> types, unlocked |-> 0 ]]
                /\ UNCHANGED last_call
    /\ UNCHANGED <<today, users, completions, streak_history, skill_progress,
                   incentive_unlocks, daily_goals>>

\* _unlock_incentive, lines 173-179: the row is added and committed, or the
\* commit raises IntegrityError; then the checks that follow
UnlockInsert(p) ==
    /\ UNCHANGED leaderboard_entries
    /\ inflight[p].op = "check_and_unlock_incentives"
    /\ LET r == inflight[p]
           uid == r.user_id
           type == Head(r.types)
       IN  IF violates_unique(incentive_unlocks, uid, type)
           THEN /\ last_call' = Call("check_and_unlock_incentives", uid, today, None,
                                     "IntegrityError", NoSkill, NoCompletion)
                /\ inflight' = [inflight EXCEPT ![p] = NoRequest]
                /\ UNCHANGED incentive_unlocks
           ELSE LET unlocks == Append(incentive_unlocks,
                                      [ user_id |-> uid, incentive_type |-> type,
                                        unlocked_at |-> today, claimed_at |-> NoDate ])
                    types == next_unlock(Tail(r.types), uid, users[uid], completions,
                                         unlocks)
                IN  /\ incentive_unlocks' = unlocks
                    /\ IF types = << >>
                       THEN /\ last_call' = Call("check_and_unlock_incentives", uid, today,
                                                 r.unlocked + 1, "", NoSkill, NoCompletion)
                            /\ inflight' = [inflight EXCEPT ![p] = NoRequest]
                       ELSE /\ inflight' = [inflight EXCEPT ![p] =
                                              [r EXCEPT !.types = types,
                                                        !.unlocked = r.unlocked + 1]]
                            /\ UNCHANGED last_call
    /\ UNCHANGED <<today, users, completions, streak_history, skill_progress,
                   daily_goals>>

\* The first cohort from k on that has users, 0 when there is none
RECURSIVE next_cohort(_, _, _)
next_cohort(k, us, order) ==
    IF k > Len(Cohorts) THEN 0
    ELSE IF cohort_users(us, order, Cohorts[k].target_score_group,
                         Cohorts[k].timeline_group) # << >> THEN k
    ELSE next_cohort(k + 1, us, order)

\* A session has made changes it has not committed: it holds the write lock
\* of the database
write_locked == \E p \in Procs : inflight[p].op = "calculate_leaderboards" /\ inflight[p].pending

\* The rows of the table that are not of the cohorts numbered in `written`
rows_outside(entries, written) ==
    Len(SelectSeq(entries,
                  LAMBDA e : \A k \in written :
                     ~(/\ e.target_score_group = Cohorts[k].target_score_group
                       /\ e.timeline_group = Cohorts[k].timeline_group)))

\* calculate_leaderboards() up to the flush of its next deletion: the cohorts
\* without users are passed (lines 79-81), for the first one with users the
\* scores are computed, the old rows deleted and the new ones added to the
\* session (lines 83-120); after the last cohort the call returns
CompileNext(p) ==
    /\ inflight[p] = NoRequest \/ (/\ inflight[p].op = "calculate_leaderboards"
                                    /\ ~inflight[p].pending)
    /\ LET r == IF inflight[p] = NoRequest
                THEN [ op |-> "calculate_leaderboards", k |-> 1, total_entries |-> 0,
                       written |-> {}, pending |-> FALSE, added |-> << >> ]
                ELSE inflight[p]
       IN  \E order \in query_orders(users) :
             LET k == next_cohort(r.k, users, order) IN
             IF k = 0
             THEN /\ last_call' = Call("calculate_leaderboards", None, today,
                                       r.total_entries, "", NoSkill, NoCompletion)
                                  @@ LeaderboardCall(rows_outside(leaderboard_entries,
                                                                  r.written))
                  /\ inflight' = [inflight EXCEPT ![p] = NoRequest]
                  /\ UNCHANGED leaderboard_entries
             ELSE LET g == _calculate_group_leaderboard(leaderboard_entries, users, order,
                                                        completions, daily_goals, today,
                                                        Cohorts[k])
                  IN  /\ ~write_locked
                      /\ leaderboard_entries' = g.deleted.committed
                      /\ inflight' = [inflight EXCEPT ![p] =
                                        [r EXCEPT !.k = k, !.pending = TRUE,
                                                  !.added = g.added]]
                      /\ UNCHANGED last_call
    /\ UNCHANGED <<today, users, completions, streak_history, skill_progress,
                   incentive_unlocks, daily_goals>>

\* self.session.commit() (line 122): the deletion and the new rows of the
\* cohort reach the table together
CompileCommit(p) ==
    /\ inflight[p].op = "calculate_leaderboards"
    /\ inflight[p].pending
    /\ LET r == inflight[p]
           deleted == delete_old_entries(leaderboard_entries,
                                         Cohorts[r.k].target_score_group,
                                         Cohorts[r.k].timeline_group)
       IN  /\ leaderboard_entries' = deleted.session \o r.added
           /\ inflight' = [inflight EXCEPT ![p] =
                             [r EXCEPT !.k = r.k + 1, !.pending = FALSE,
                                       !.added = << >>,
                                       !.written = r.written \cup {r.k},
                                       !.total_entries = r.total_entries + Len(r.added)]]
    /\ UNCHANGED <<today, users, completions, streak_history, skill_progress,
                   incentive_unlocks, daily_goals, last_call>>

\* record_activity_completion in a request of its own, up to its first
\* commit: the session loads the user row (line 55)
RecordRead(p, uid, i) ==
    /\ inflight[p] = NoRequest
    /\ uid \in DOMAIN users
    /\ i \in new_completions
    /\ completions[i].user_id = uid
    /\ inflight' = [inflight EXCEPT ![p] =
                      [ op |-> "record_activity_completion", user_id |-> uid,
                        completion |-> completions[i], user |-> users[uid] ]]
    /\ UNCHANGED <<today, users, completions, streak_history, skill_progress,
                   incentive_unlocks, daily_goals, leaderboard_entries, last_call>>

\* Lines 67-70 in a session that loaded the row `read`: the sums are made
\* from the values loaded, and the commit writes them, with the date, over
\* the row as it is now
committed_metrics(read, current, completion) ==
    [current EXCEPT !.total_points = record_metrics(read, completion).total_points,
                    !.total_activities = record_metrics(read, completion).total_activities,
                    !.last_activity_date =
                        record_metrics(read, completion).last_activity_date]

\* The commit of line 70 and the rest of the call (lines 72-103), which reads
\* the row again after the commit
RecordWrite(p) ==
    /\ inflight[p].op = "record_activity_completion"
    /\ LET r == inflight[p]
           uid == r.user_id
           u1 == committed_metrics(r.user, users[uid], r.completion)
       IN  /\ within_activity_bound(r.user.total_activities)
           /\ \E nowDay \in second_reading(u1, today) :
                LET st == update_streak(uid, u1, today, nowDay)
                    sk == IF skill_analysis_due(st.user)
                          THEN analyze_and_update_skill(uid, st.user,
                                                        activity_skill(r.completion),
                                                        completions)
                          ELSE [ user |-> st.user, added |-> << >>, ret |-> None ]
                    un == evaluate_incentives(uid, users[uid], sk.user, completions,
                                              incentive_unlocks, nowDay)
                IN
                /\ within_streak_bound(users[uid].current_streak, st.user.current_streak)
                /\ Len(streak_history) + Len(st.added) <= MaxHistory
                /\ Len(skill_progress) + Len(sk.added) <= MaxProgress
                /\ users' = [users EXCEPT ![uid] = sk.user]
                /\ streak_history' = streak_history \o st.added
                /\ skill_progress' = skill_progress \o sk.added
                /\ incentive_unlocks' = incentive_unlocks \o un
                /\ today' = nowDay
                /\ last_call' = Call("record_activity_completion", uid, nowDay, st.ret, "",
                                     IF sk.ret = None THEN "" ELSE activity_skill(r.completion),
                                     r.completion)
                                @@ RecordCall(skill_analysis_due(st.user), Len(un))
    /\ inflight' = [inflight EXCEPT ![p] = NoRequest]
    /\ UNCHANGED <<completions, daily_goals, leaderboard_entries>>

\* The store fails while a cohort is being compiled: session.commit() (line
\* 122) raises.  Nothing catches the error in _calculate_group_leaderboard or
\* in the loop of calculate_leaderboards (lines 44-47): the call ends with
\* it, the changes of the cohort are not committed and the cohorts after it
\* are not reached.  cohort is the number of the cohort being compiled.
CompileFail(p) ==
    /\ inflight[p].op = "calculate_leaderboards"
    /\ inflight[p].pending
    /\ last_call' = Call("calculate_leaderboards", None, today, None, "OperationalError",
                         NoSkill, NoCompletion)
                    @@ LeaderboardCall(rows_outside(leaderboard_entries,
                                                    inflight[p].written))
                    @@ [ cohort |-> inflight[p].k ]
    /\ inflight' = [inflight EXCEPT ![p] = NoRequest]
    /\ UNCHANGED <<today, users, completions, streak_history, skill_progress,
                   incentive_unlocks, daily_goals, leaderboard_entries>>

----------------------------------------------------------------------------
(* The store the streak engine starts from: one user, made as the tests and
   the seeding script make users, with a streak and a last activity date. *)

\* <<current_streak, longest_streak, last_activity_date, total_activities>>: a
\* user just created, and users with a streak whose last activity was on
\* Friday, yesterday or today
UserFixtures ==
    { <<0, 0, NoDate, 0>>,
      <<0, 6, StartDay - 1, 3>>,
      <<5, 5, StartDay - 2, 3>>,
      <<5, 6, StartDay - 1, 3>>,
      <<5, 5, StartDay, 3>> }

NoCall ==
    [ op |-> "", user_id |-> None, pre |-> NoUser, day |-> NoDate, now |-> NoDate,
      n_history |-> 0, n_progress |-> 0, n_unlocks |-> 0, n_completions |-> 0,
      ret |-> None, raised |-> "", skill |-> "", completion |-> NoCompletion ]

Init ==
    /\ today = StartDay
    /\ \E f \in UserFixtures :
         users = [ uid \in {1} |->
                     [NewUser EXCEPT !.current_streak = f[1], !.longest_streak = f[2],
                                     !.last_activity_date = f[3],
                                     !.total_activities = f[4]] ]
    /\ completions = << >>
    /\ streak_history = << >>
    /\ skill_progress = << >>
    /\ incentive_unlocks = << >>
    /\ daily_goals = << >>
    /\ inflight = Idle
    /\ leaderboard_entries = << >>
    /\ last_call = NoCall

ActivityInputs == {1, 9}
ScoreInputs == {90, 101}

Next ==
    \/ Tick
    \/ \E uid \in UserIds : UpdateLastActivity(uid)
    \/ \E uid \in UserIds : UpdateStreak(uid)
    \/ \E uid \in UserIds, a \in ActivityInputs, score \in ScoreInputs :
         CompleteActivity(uid, a, score)
    \/ \E uid \in UserIds, i \in new_completions : RecordActivityCompletion(uid, i)

Spec == Init /\ [][Next]_vars

\* The operations on the counters of a user: the points passed to add_points
\* are an int, of either sign
PointsInputs == {-5, 10}

NextCounters ==
    \/ \E uid \in UserIds, points \in PointsInputs : AddPoints(uid, points)
    \/ \E uid \in UserIds : IncrementActivityCount(uid)
    \/ \E uid \in UserIds, a \in ActivityInputs, score \in ScoreInputs :
         CompleteActivity(uid, a, score)
    \/ \E uid \in UserIds, i \in new_completions : RecordActivityCompletion(uid, i)

SpecCounters == Init /\ [][NextCounters]_vars

----------------------------------------------------------------------------
(* The store the skill analyzer starts from: one user with skill levels set
   as the tests set them and a history of reading completions, made before
   the day the store is set up. *)

LevelInputs == {0, 3000, 10000, 19000, 60000, 90000}

\* Scores of the user's earlier reading completions, oldest first
ScoreProfiles ==
    { <<84, 100, 84, 100, 84, 100, 84, 100, 84, 100>>,
      <<0, 0, 84, 100, 84, 100, 84, 100, 84, 100, 84, 100>>,
      <<90, 90, 90, 90>>,
      <<45, 45, 45, 45, 45>>,
      <<89, 90, 89, 90, 90>> }

FixtureCompletions(scores) ==
    [ i \in 1..Len(scores) |->
        [ user_id |-> 1, activity_id |-> 1, score |-> scores[i],
          points_earned |-> points_earned(1, scores[i]),
          completed_at |-> StartDay - 1 ] ]

InitSkill ==
    /\ today = StartDay
    /\ \E l \in LevelInputs :
         users = [ uid \in {1} |->
                     [NewUser EXCEPT !.level = [ reading |-> l, writing |-> 50000,
                                                 listening |-> 65000, speaking |-> 62000 ],
                                     !.last_activity_date = StartDay - 1,
                                     !.total_activities = 4] ]
    /\ \E scores \in ScoreProfiles : completions = FixtureCompletions(scores)
    /\ streak_history = << >>
    /\ skill_progress = << >>
    /\ incentive_unlocks = << >>
    /\ daily_goals = << >>
    /\ inflight = Idle
    /\ leaderboard_entries = << >>
    /\ last_call = NoCall

SkillActivityInputs == {1, 2}
SkillScoreInputs == {45, 90}

NextSkill ==
    \/ \E uid \in DOMAIN users, skill \in SkillType : AnalyzeAndUpdateSkill(uid, skill)
    \/ \E uid \in DOMAIN users, a \in SkillActivityInputs, score \in SkillScoreInputs :
         CompleteActivity(uid, a, score)
    \/ \E uid \in DOMAIN users, i \in new_completions : RecordActivityCompletion(uid, i)

SpecSkill == InitSkill /\ [][NextSkill]_vars

----------------------------------------------------------------------------
(* The store the goal assignment starts from: one user with a target score
   and skill levels, as the tests make them, who may have completed a writing
   activity and may have been assigned a goal the day before. *)

\* <<reading, writing, listening, speaking, target_score>>
GoalUserFixtures ==
    { <<60000, 50000, 65000, 62000, 70000>>,
      <<0, 0, 0, 0, 70000>>,
      <<65000, 50000, 60000, 50000, 70000>>,
      <<70000, 75000, 80000, 90000, 70000>> }

YesterdayGoal(skill) ==
    [ user_id |-> 1,
      activity_id |-> CHOOSE a \in DOMAIN Activities : Activities[a].skill = skill,
      assigned_date |-> StartDay - 1, target_skill |-> skill,
      skill_gap |-> 10000, priority_score |-> 100000, completed |-> FALSE ]

GoalFixtures == { << >>, <<YesterdayGoal("reading")>>, <<YesterdayGoal("writing")>> }

\* A reading completion two days before the store is set up, then ten writing
\* completions on the day before
BusyWritingDay ==
    [ i \in 1..11 |->
        [ user_id |-> 1, activity_id |-> IF i = 1 THEN 1 ELSE 2, score |-> 90,
          points_earned |-> points_earned(IF i = 1 THEN 1 ELSE 2, 90),
          completed_at |-> IF i = 1 THEN StartDay - 2 ELSE StartDay - 1 ] ]

CompletionFixtures ==
    { << >>,
      << [ user_id |-> 1, activity_id |-> 2, score |-> 90,
           points_earned |-> points_earned(2, 90), completed_at |-> StartDay - 1 ] >>,
      BusyWritingDay }

InitGoal ==
    /\ today = StartDay
    /\ \E f \in GoalUserFixtures :
         users = [ uid \in {1} |->
                     [NewUser EXCEPT !.level = [ reading |-> f[1], writing |-> f[2],
                                                 listening |-> f[3], speaking |-> f[4] ],
                                     !.target_score = f[5]] ]
    /\ completions \in CompletionFixtures
    /\ daily_goals \in GoalFixtures
    /\ streak_history = << >>
    /\ skill_progress = << >>
    /\ incentive_unlocks = << >>
    /\ inflight = Idle
    /\ leaderboard_entries = << >>
    /\ last_call = NoCall

GoalActivityInputs == {1, 2}
GoalScoreInputs == {90}

NextGoal ==
    \/ Tick
    \/ \E uid \in DOMAIN users : AssignDailyGoal(uid)
    \/ \E uid \in DOMAIN users, a \in GoalActivityInputs, score \in GoalScoreInputs :
         CompleteActivity(uid, a, score)

SpecGoal == InitGoal /\ [][NextGoal]_vars

----------------------------------------------------------------------------
(* The store the incentive manager starts from: one user short of a
   threshold, at one, or far from any, for each threshold of the two tiers. *)

\* <<current_streak, longest_streak, last_activity_date, total_points,
\*   total_activities>>
IncentiveUserFixtures ==
    { <<0, 0, NoDate, 0, 0>>,
      <<6, 6, StartDay - 1, 0, 3>>,
      <<0, 0, NoDate, 490, 3>>,
      <<0, 0, NoDate, 2000, 3>>,
      <<1, 1, StartDay - 3, 0, 29>>,
      <<1, 1, StartDay - 3, 0, 30>>,
      <<1, 1, StartDay - 3, 0, 99>>,
      <<1, 1, StartDay - 3, 0, 100>>,
      <<1, 7, StartDay - 3, 1999, 3>>,
      <<30, 30, StartDay - 1, 0, 3>> }

\* Users at the premium streak threshold and one day short of it
PremiumUserFixtures ==
    { <<14, 14, StartDay - 1, 150, 3>>,
      <<13, 13, StartDay - 1, 150, 3>> }

\* Completions of user 1 made before the store was set up: five of reading,
\* of listening and of speaking, and `writing` of writing
PracticeCompletions(writing) ==
    [ i \in 1..(15 + writing) |->
        [ user_id |-> 1,
          activity_id |-> IF i > 15 THEN 2 ELSE <<1, 3, 4>>[((i - 1) % 3) + 1],
          score |-> 70,
          points_earned |-> IF i <= 15 /\ (i - 1) % 3 = 0 THEN 7 ELSE 70,
          completed_at |-> StartDay - 2 ] ]

\* The writing completions of the premium fixtures: one short, and enough
PremiumWritingCounts == {4, 5}

\* <<user, completions>>
IncentiveFixtures ==
    {<<f, << >> >> : f \in IncentiveUserFixtures}
      \cup {<<f, PracticeCompletions(w)>> : f \in PremiumUserFixtures,
                                            w \in PremiumWritingCounts}

InitIncentive ==
    /\ today = StartDay
    /\ \E x \in IncentiveFixtures :
         LET f == x[1] IN
         /\ users = [ uid \in {1} |->
                     [NewUser EXCEPT !.current_streak = f[1], !.longest_streak = f[2],
                                     !.last_activity_date = f[3],
                                     !.total_points = f[4],
                                     !.total_activities = f[5]] ]
         /\ completions = x[2]
    /\ streak_history = << >>
    /\ skill_progress = << >>
    /\ incentive_unlocks = << >>
    /\ daily_goals = << >>
    /\ inflight = Idle
    /\ leaderboard_entries = << >>
    /\ last_call = NoCall

IncentiveActivityInputs == {2}
IncentiveScoreInputs == {90}

NextIncentive ==
    \/ Tick
    \/ \E uid \in DOMAIN users : UpdateStreak(uid)
    \/ \E uid \in DOMAIN users : CheckAndUnlockIncentives(uid)
    \/ \E uid \in DOMAIN users, a \in IncentiveActivityInputs,
          score \in IncentiveScoreInputs : CompleteActivity(uid, a, score)
    \/ \E uid \in DOMAIN users, i \in new_completions : RecordActivityCompletion(uid, i)

SpecIncentive == InitIncentive /\ [][NextIncentive]_vars

----------------------------------------------------------------------------
(* The store the leaderboard ranker starts from: three users of the
   medium-term timeline, two of them with the same target score, with the
   streaks, completions and goals their scores are made of. *)

\* For users 1, 2 and 3: <<current_streak, target_score>>
LeaderboardUserFixtures ==
    { << <<5, 65000>>, <<2, 65000>>, <<0, 70000>> >>,
      << <<2, 65000>>, <<20, 65000>>, <<3, 60000>> >>,
      << <<3, 55000>>, <<3, 65000>>, <<1, 52000>> >> }

\* A completion of user 2 on the day before the store is set up
LeaderboardCompletions ==
    << [ user_id |-> 2, activity_id |-> 1, score |-> 80, points_earned |-> 8,
         completed_at |-> StartDay - 1 ] >>

\* Two goals of user 1, one of them completed
LeaderboardGoals ==
    << [YesterdayGoal("reading") EXCEPT !.completed = TRUE],
       [YesterdayGoal("writing") EXCEPT !.assigned_date = StartDay - 2] >>

InitLeaderboardFrom(fixtures) ==
    /\ today = StartDay
    /\ \E f \in fixtures :
         users = [ uid \in 1..3 |->
                     [NewUser EXCEPT !.current_streak = f[uid][1],
                                     !.longest_streak = f[uid][1],
                                     !.last_activity_date = StartDay - 1,
                                     !.target_score = f[uid][2]] ]
    /\ completions = LeaderboardCompletions
    /\ streak_history = << >>
    /\ skill_progress = << >>
    /\ incentive_unlocks = << >>
    /\ daily_goals = LeaderboardGoals
    /\ leaderboard_entries = << >>
    /\ inflight = Idle
    /\ last_call = NoCall

InitLeaderboard == InitLeaderboardFrom(LeaderboardUserFixtures)

\* The store of the runs taken cohort by cohort: the three users share cohort
\* 6.5, users 1 and 2 are in cohort 7.0 too and user 3 in cohort 6.0
LeaderboardStepsFixtures == { << <<2, 65000>>, <<20, 65000>>, <<3, 60000>> >> }

InitLeaderboardSteps == InitLeaderboardFrom(LeaderboardStepsFixtures)

\* The target scores profiles are updated to: a valid one and one over 9.0
TargetScoreInputs == {60000, 95000}

NextLeaderboard ==
    \/ Tick
    \/ \E uid \in DOMAIN users, target_score \in TargetScoreInputs :
         UpdateUserProfile(uid, target_score)
    \/ CalculateLeaderboards

SpecLeaderboard == InitLeaderboard /\ [][NextLeaderboard]_vars

\* The store of a run made four weeks after the store was set up: one user
\* who was active on each of the last `n` days, today included, with a streak
\* and goals of that period
ReportDay == StartDay + 28

DailyCompletions(n) ==
    [ i \in 1..n |->
        [ user_id |-> 1, activity_id |-> 1, score |-> 80, points_earned |-> 8,
          completed_at |-> ReportDay - n + i ] ]

\* The days of activity: none, the 30 of the period, and 31, the oldest made
\* 30 days ago at a later time of day than the run's
ActiveDaysInputs == {0, 30, 31}

ReportStreaks == {0, 30, 31}

ReportGoals ==
    { << >>,
      << [YesterdayGoal("reading") EXCEPT !.assigned_date = ReportDay - 1,
                                          !.completed = TRUE] >>,
      << [YesterdayGoal("reading") EXCEPT !.assigned_date = ReportDay - 1,
                                          !.completed = TRUE],
         [YesterdayGoal("writing") EXCEPT !.assigned_date = ReportDay - 2] >> }

InitReport ==
    /\ today = ReportDay
    /\ \E streak \in ReportStreaks :
         users = [ uid \in {1} |->
                     [NewUser EXCEPT !.current_streak = streak,
                                     !.longest_streak = streak,
                                     !.last_activity_date = ReportDay] ]
    /\ \E n \in ActiveDaysInputs : completions = DailyCompletions(n)
    /\ daily_goals \in ReportGoals
    /\ streak_history = << >>
    /\ skill_progress = << >>
    /\ incentive_unlocks = << >>
    /\ leaderboard_entries = << >>
    /\ inflight = Idle
    /\ last_call = NoCall

NextReport ==
    \/ \E uid \in DOMAIN users, target_score \in TargetScoreInputs :
         UpdateUserProfile(uid, target_score)
    \/ CalculateLeaderboards

SpecReport == InitReport /\ [][NextReport]_vars

\* Unlocking and claiming: the ids claimed are those of the table and the
\* next one, which no row has yet
NextClaim ==
    \/ Tick
    \/ \E uid \in DOMAIN users : CheckAndUnlockIncentives(uid)
    \/ \E unlock_id \in 1..(Len(incentive_unlocks) + 1) : ClaimIncentive(unlock_id)

SpecClaim == InitIncentive /\ [][NextClaim]_vars

----------------------------------------------------------------------------
(* Concurrent requests against the stores above *)

\* Two requests assigning goals
NextGoalRace ==
    \/ Tick
    \/ \E p \in Procs, uid \in DOMAIN users : AssignBegin(p, uid)
    \/ \E p \in Procs : AssignCreate(p)

SpecGoalRace == InitGoal /\ [][NextGoalRace]_vars

\* Two requests analyzing skills, either of which may fail between its commits
NextSkillSteps ==
    \/ \E p \in Procs, uid \in DOMAIN users, skill \in SkillType :
         AnalyzeBegin(p, uid, skill)
    \/ \E p \in Procs : AnalyzeFinish(p)
    \/ \E p \in Procs : AnalyzeFail(p)

SpecSkillSteps == InitSkill /\ [][NextSkillSteps]_vars

\* Two requests evaluating incentives while the streak moves
NextIncentiveRace ==
    \/ Tick
    \/ \E uid \in DOMAIN users : UpdateStreak(uid)
    \/ \E p \in Procs, uid \in DOMAIN users : UnlockBegin(p, uid)
    \/ \E p \in Procs : UnlockInsert(p)

SpecIncentiveRace == InitIncentive /\ [][NextIncentiveRace]_vars

\* Two leaderboard runs, cohort by cohort, within a day, while profiles are
\* updated; a profile update waits for the write lock
NextLeaderboardSteps ==
    \/ \E uid \in DOMAIN users, target_score \in TargetScoreInputs :
         ~write_locked /\ UpdateUserProfile(uid, target_score)
    \/ \E p \in Procs : CompileNext(p)
    \/ \E p \in Procs : CompileCommit(p)

SpecLeaderboardSteps == InitLeaderboardSteps /\ [][NextLeaderboardSteps]_vars

\* Two requests recording the completions of a user, each in its own
\* session: the user has two completions made today, not yet recorded
TodaysCompletions ==
    << [ user_id |-> 1, activity_id |-> 1, score |-> 90,
         points_earned |-> points_earned(1, 90), completed_at |-> StartDay ],
       [ user_id |-> 1, activity_id |-> 2, score |-> 90,
         points_earned |-> points_earned(2, 90), completed_at |-> StartDay ] >>

InitRecordRace ==
    /\ today = StartDay
    /\ \E f \in UserFixtures :
         users = [ uid \in {1} |->
                     [NewUser EXCEPT !.current_streak = f[1], !.longest_streak = f[2],
                                     !.last_activity_date = f[3],
                                     !.total_activities = f[4]] ]
    /\ completions = TodaysCompletions
    /\ streak_history = << >>
    /\ skill_progress = << >>
    /\ incentive_unlocks = << >>
    /\ daily_goals = << >>
    /\ inflight = Idle
    /\ leaderboard_entries = << >>
    /\ last_call = NoCall

NextRecordRace ==
    \/ \E p \in Procs, uid \in DOMAIN users, i \in new_completions : RecordRead(p, uid, i)
    \/ \E p \in Procs : RecordWrite(p)

SpecRecordRace == InitRecordRace /\ [][NextRecordRace]_vars

\* Leaderboard runs, cohort by cohort, against a store that may fail at a
\* commit
NextLeaderboardFail ==
    \/ \E uid \in DOMAIN users, target_score \in TargetScoreInputs :
         ~write_locked /\ UpdateUserProfile(uid, target_score)
    \/ \E p \in Procs : CompileNext(p)
    \/ \E p \in Procs : CompileCommit(p)
    \/ \E p \in Procs : CompileFail(p)

SpecLeaderboardFail == InitLeaderboardSteps /\ [][NextLeaderboardFail]_vars

----------------------------------------------------------------------------
(* Properties of the skill analyzer *)

\* The last call updated a skill level: analyze_and_update_skill returned a
\* SkillProgress, called directly or from record_activity_completion.
SkillUpdated ==
    \/ last_call.op = "analyze_and_update_skill" /\ last_call.ret # None
    \/ last_call.op = "record_activity_completion" /\ last_call.skill # ""
AddedProgress == SubSeq(skill_progress, last_call.n_progress + 1, Len(skill_progress))
PreLevel == last_call.pre.level[last_call.skill]
PostLevel == users[last_call.user_id].level[last_call.skill]

\* C8: for every user and skill, after any sequence of skill updates, the
\* stored level satisfies 0.0 <= level <= 9.0.
C8_LevelInRange ==
    \A uid \in DOMAIN users : \A skill \in SkillType :
        /\ 0 <= users[uid].level[skill]
        /\ users[uid].level[skill] <= 9 * Unit

\* C8 witness: an update that pulled a level of 0.0 down was held at 0.0.
C8_Witness ==
    /\ SkillUpdated
    /\ PreLevel = 0
    /\ AddedProgress[1].adjustment < 0
    /\ PostLevel = 0

\* C9: every update changes the stored level by at most
\* SKILL_MAX_CHANGE_PER_UPDATE in absolute value, and its SkillProgress
\* snapshot records that same previous and new level.
C9_ChangeAtMostMax ==
    SkillUpdated
    => /\ PostLevel - PreLevel <= SKILL_MAX_CHANGE_PER_UPDATE
       /\ PreLevel - PostLevel <= SKILL_MAX_CHANGE_PER_UPDATE
       /\ Len(AddedProgress) = 1
       /\ AddedProgress[1].previous_level = PreLevel
       /\ AddedProgress[1].new_level = PostLevel
       /\ AddedProgress[1].skill = last_call.skill

\* C9 witness: an update from 6.0 whose change was clipped to the maximum.
C9_Witness ==
    /\ SkillUpdated
    /\ PreLevel = 60000
    /\ PreLevel - PostLevel = SKILL_MAX_CHANGE_PER_UPDATE

\* The level the claim's formula gives: blend, then clip the step, then clamp.
ExpectedLevel(current, adjustment) ==
    LET blend == (current * (Unit - SKILL_MOVING_AVERAGE_ALPHA)
                    + adjustment * SKILL_MOVING_AVERAGE_ALPHA) \div Unit
        step == blend - current
        clipped == IF step > SKILL_MAX_CHANGE_PER_UPDATE THEN SKILL_MAX_CHANGE_PER_UPDATE
                   ELSE IF step < -SKILL_MAX_CHANGE_PER_UPDATE
                        THEN -SKILL_MAX_CHANGE_PER_UPDATE
                   ELSE step
        moved == current + clipped
    IN  IF moved < 0 THEN 0 ELSE IF moved > 9 * Unit THEN 9 * Unit ELSE moved

TenScoresAveraging92 ==
    /\ Len(AddedProgress[1].recent_scores) = 10
    /\ Sum(AddedProgress[1].recent_scores) = 920

\* C10: the new level is clamp[0,9](current + clip(blend - current)) with
\* blend = current*(1-alpha) + adjustment*alpha; for ten scores averaging 92
\* (adjustment +0.3) and current level 6.0 the new level is 5.5.
C10_BlendThenClipThenClamp ==
    SkillUpdated
    => /\ Len(AddedProgress) = 1
       /\ PostLevel = ExpectedLevel(PreLevel, AddedProgress[1].adjustment)
       /\ (TenScoresAveraging92 /\ PreLevel = 60000)
            => (AddedProgress[1].adjustment = 3000 /\ PostLevel = 55000)

\* C10 witness: the update of a level of 6.0 from ten scores averaging 92.
C10_Witness ==
    /\ SkillUpdated
    /\ TenScoresAveraging92
    /\ PreLevel = 60000
    /\ PostLevel = 55000

\* The rows of activity_completion the user has for the skill
CompletionsFor(uid, skill) ==
    {i \in 1..Len(completions) :
        completions[i].user_id = uid /\ activity_skill(completions[i]) = skill}

\* C11: a call of analyze_and_update_skill for a user with fewer than
\* SKILL_ANALYSIS_TRIGGER_COUNT completions of the skill returns None, leaves
\* all four skill levels as they were and appends no SkillProgress snapshot.
C11_InsufficientDataNoUpdate ==
    (/\ last_call.op = "analyze_and_update_skill"
     /\ Cardinality(CompletionsFor(last_call.user_id, last_call.skill))
          < SKILL_ANALYSIS_TRIGGER_COUNT)
    => /\ last_call.ret = None
       /\ users[last_call.user_id].level = last_call.pre.level
       /\ Len(skill_progress) = last_call.n_progress

\* C11 witness: a call for a skill with four completions, one short of the
\* trigger count, whose scores would have moved the level.
C11_Witness ==
    /\ last_call.op = "analyze_and_update_skill"
    /\ Cardinality(CompletionsFor(last_call.user_id, last_call.skill)) = 4
    /\ last_call.pre.level[last_call.skill] = 60000
    /\ last_call.ret = None

\* C31: record_activity_completion calls the skill analyzer for the skill of
\* the completed activity exactly when the number of the user's completions
\* of that skill is a multiple of SKILL_ANALYSIS_TRIGGER_COUNT, however many
\* completions the user has of other skills.
C31_AnalyzerCalledOnSkillCount ==
    (last_call.op = "record_activity_completion" /\ last_call.raised = "")
    => (last_call.skill_analyzer_called
          <=> Cardinality(CompletionsFor(last_call.user_id,
                                         activity_skill(last_call.completion)))
                % SKILL_ANALYSIS_TRIGGER_COUNT = 0)

\* The adjustments _get_score_adjustment can return
PossibleAdjustments ==
    {SCORE_ADJUSTMENTS[k][3] : k \in 1..Len(SCORE_ADJUSTMENTS)} \cup {0}

\* C40: the adjustment, at most +0.3, is blended as a level, so
\* analyze_and_update_skill never raises a level that is 0.3 or more: for
\* every current level L in [0.3, 9.0] and every scores the new level is at
\* most L.
C40_NoRiseFromPointThree ==
    (SkillUpdated /\ PreLevel >= 3 * (Unit \div 10) /\ PreLevel <= 9 * Unit)
    => /\ PostLevel <= PreLevel
       /\ AddedProgress[1].new_level <= AddedProgress[1].previous_level
       /\ \A adjustment \in PossibleAdjustments :
            new_skill_level(PreLevel, adjustment) <= PreLevel

\* C40 witness: a level of exactly 0.3 updated from ten scores averaging 92,
\* the best adjustment, stayed at 0.3.
C40_Witness ==
    /\ SkillUpdated
    /\ PreLevel = 3 * (Unit \div 10)
    /\ TenScoresAveraging92
    /\ AddedProgress[1].adjustment = 3 * (Unit \div 10)
    /\ PostLevel = PreLevel

\* The ranges of SCORE_ADJUSTMENTS that hold the mean of the scores
MatchingRanges(scores) ==
    {k \in 1..Len(SCORE_ADJUSTMENTS) :
        /\ SCORE_ADJUSTMENTS[k][1] * Len(scores) <= Sum(scores)
        /\ Sum(scores) <= SCORE_ADJUSTMENTS[k][2] * Len(scores)}

\* C32: the score-to-adjustment table partitions [0,100]: for the mean of the
\* up to ten scores an update is computed from, whole or not, exactly one
\* range matches and the adjustment applied is that range's; no mean is
\* mapped to a default adjustment.
C32_TablePartitionsScores ==
    SkillUpdated
    => /\ Cardinality(MatchingRanges(AddedProgress[1].recent_scores)) = 1
       /\ \A k \in MatchingRanges(AddedProgress[1].recent_scores) :
            AddedProgress[1].adjustment = SCORE_ADJUSTMENTS[k][3]

----------------------------------------------------------------------------
(* Properties of the goal assignment *)

IsGoalCall == last_call.op = "assign_daily_goal"

\* The goals of a user assigned on a day
GoalsOn(uid, day) ==
    {i \in 1..Len(daily_goals) :
        daily_goals[i].user_id = uid /\ daily_goals[i].assigned_date = day}

\* C13: a call of assign_daily_goal for a user who has been assigned a goal
\* earlier the same day returns that goal, with its activity, target skill,
\* gap and priority, and adds no row: the user has exactly one goal that day.
C13_IdempotentWithinDay ==
    (IsGoalCall /\ last_call.todays # {})
    => /\ last_call.kind = "existing"
       /\ last_call.ret \in last_call.todays
       /\ last_call.goal = daily_goals[last_call.ret]
       /\ Len(daily_goals) = last_call.n_goals
       /\ Cardinality(GoalsOn(last_call.user_id, last_call.day)) = 1

\* C13 witness: a second call on the day a writing goal was created, for
\* which two activities were eligible.
C13_Witness ==
    /\ IsGoalCall
    /\ last_call.kind = "existing"
    /\ last_call.goal.assigned_date = last_call.day
    /\ last_call.goal.target_skill = "writing"
    /\ last_call.n_goals = Len(daily_goals)

\* The call found no goal for today and went on to choose a skill
GoalPlanned == IsGoalCall /\ last_call.kind # "existing"

\* max(0, target_score - level) of the user the call read
Gap(skill) == Max(0, last_call.pre.target_score - last_call.pre.level[skill])

NoCompletionsOf(uid) == \A i \in 1..Len(completions) : completions[i].user_id # uid

\* C15: for a user with no completions in the lookback window and no goal
\* yesterday, assign_daily_goal targets a skill whose gap
\* max(0, target_score - level) is the largest; for levels reading 6.0,
\* writing 5.0, listening 6.5, speaking 6.2 and target 7.0 it targets writing.
C15_LargestGapTargeted ==
    (/\ GoalPlanned
     /\ last_call.yesterdays = {}
     /\ NoCompletionsOf(last_call.user_id))
    => /\ last_call.kind = "created"
       /\ last_call.goal.target_skill \in SkillType
       /\ \A skill \in SkillType : Gap(skill) <= Gap(last_call.goal.target_skill)
       /\ last_call.goal.skill_gap = Gap(last_call.goal.target_skill)
       /\ (/\ last_call.pre.target_score = 70000
           /\ last_call.pre.level = [ reading |-> 60000, writing |-> 50000,
                                      listening |-> 65000, speaking |-> 62000 ])
          => last_call.goal.target_skill = "writing"

\* C15 witness: the user of test_goal_assignment_targets_weak_skills is
\* assigned a writing goal with gap 2.0.
C15_Witness ==
    /\ GoalPlanned
    /\ last_call.yesterdays = {}
    /\ NoCompletionsOf(last_call.user_id)
    /\ last_call.pre.level["writing"] = 50000
    /\ last_call.pre.level["reading"] = 60000
    /\ last_call.goal.target_skill = "writing"
    /\ last_call.goal.skill_gap = 20000

\* The skills of the goals the user was assigned yesterday
YesterdaySkills == {daily_goals[i].target_skill : i \in last_call.yesterdays}

\* C16: the priority used for selection of a skill targeted by yesterday's
\* goal is exactly half of gap * GOAL_PRIORITY_SCALING + recency penalty, and
\* the priority of every other skill is that unadjusted value; with no goal
\* yesterday no priority is changed.
C16_RotationHalvesYesterdaysSkill ==
    GoalPlanned
    => \A skill \in SkillType :
         LET unadjusted == (Gap(skill) * GOAL_PRIORITY_SCALING) \div Unit
                             + last_call.plan.recency[skill]
         IN  IF skill \in YesterdaySkills
             THEN 2 * last_call.plan.priority_scores[skill] = unadjusted
             ELSE last_call.plan.priority_scores[skill] = unadjusted

\* C16 witness: writing had the highest unadjusted priority, was targeted
\* yesterday, and another skill is targeted today.
C16_Witness ==
    /\ GoalPlanned
    /\ YesterdaySkills = {"writing"}
    /\ \A skill \in SkillType :
         last_call.plan.unadjusted[skill] <= last_call.plan.unadjusted["writing"]
    /\ last_call.kind = "created"
    /\ last_call.goal.target_skill # "writing"

\* The place of a skill in the canonical order
Position(skill) == CHOOSE i \in 1..Len(SkillOrder) : SkillOrder[i] = skill

\* C17: the skill selected is, among the skills whose priority after rotation
\* is above zero, the one of highest priority, and among several of that
\* priority the first in the order reading, writing, listening, speaking; no
\* skill is selected when no priority is above zero.
C17_HighestPriorityFirstInOrder ==
    GoalPlanned
    => LET scores == last_call.plan.priority_scores
           positive == {skill \in SkillType : scores[skill] > 0}
           target == last_call.plan.target_skill
       IN  IF positive = {} THEN target = NoSkill
           ELSE /\ target \in positive
                /\ \A skill \in positive : scores[skill] <= scores[target]
                /\ \A skill \in positive :
                     scores[skill] = scores[target] => Position(target) <= Position(skill)

\* C17 witness: writing and speaking tie for the highest priority, above
\* reading, and writing is selected.
C17_Witness ==
    /\ GoalPlanned
    /\ last_call.plan.priority_scores["writing"] = last_call.plan.priority_scores["speaking"]
    /\ last_call.plan.priority_scores["reading"] < last_call.plan.priority_scores["writing"]
    /\ last_call.plan.priority_scores["listening"] < last_call.plan.priority_scores["writing"]
    /\ last_call.plan.target_skill = "writing"

\* C18: for a user whose level is at or above the target score in all four
\* skills, assign_daily_goal returns None and creates no DailyGoal row.
C18_NoGapNoGoal ==
    (/\ GoalPlanned
     /\ \A skill \in SkillType : last_call.pre.level[skill] >= last_call.pre.target_score)
    => /\ last_call.ret = None
       /\ Len(daily_goals) = last_call.n_goals

\* The user's completions of the skill within the 30-day lookback window of
\* the call
CompletionsInWindow(skill) ==
    {i \in CompletionsFor(last_call.user_id, skill) :
        completions[i].completed_at >= last_call.day - 30}

\* The day of the most recent of them
LastPractised(skill) ==
    CHOOSE d \in {completions[i].completed_at : i \in CompletionsInWindow(skill)} :
        \A i \in CompletionsInWindow(skill) : completions[i].completed_at <= d

\* C33: the recency penalty of a skill is (days since the user's most recent
\* completion of the skill) * GOAL_RECENCY_PENALTY whenever the user has a
\* completion of the skill in the 30-day window, whatever number of
\* completions of other skills came later; it is 30 * GOAL_RECENCY_PENALTY
\* only when the skill has no completion in the window.  The days since are
\* whole periods of 24 hours: the calendar days between, or one fewer.
C33_RecencyFromLastCompletionOfSkill ==
    GoalPlanned
    => \A skill \in SkillType :
         IF CompletionsInWindow(skill) = {}
         THEN last_call.plan.recency[skill] = 30 * GOAL_RECENCY_PENALTY
         ELSE \E part \in {0, 1} :
                last_call.plan.recency[skill]
                  = Max(0, last_call.day - LastPractised(skill) - part)
                      * GOAL_RECENCY_PENALTY

\* The activities of a skill whose duration is within the configured window
InDurationWindow(skill) ==
    {a \in DOMAIN Activities :
        /\ Activities[a].skill = skill
        /\ Activities[a].duration_minutes >= DAILY_GOAL_DURATION_MIN
        /\ Activities[a].duration_minutes <= DAILY_GOAL_DURATION_MAX}

\* The priority of a skill after the rotation constraint
PostRotationPriority(skill) ==
    LET unadjusted == (Gap(skill) * GOAL_PRIORITY_SCALING) \div Unit
                        + last_call.plan.recency[skill]
    IN  IF skill \in YesterdaySkills THEN unadjusted \div 2 ELSE unadjusted

\* C34: every DailyGoal assign_daily_goal creates references an activity of
\* the goal's target skill whose duration is within DAILY_GOAL_DURATION_MIN
\* and DAILY_GOAL_DURATION_MAX, and stores the gap of the chosen skill and its
\* priority after rotation; when the chosen skill has no such activity no
\* goal is created and the call returns None.
C34_GoalFromEligibleActivity ==
    GoalPlanned
    => /\ last_call.kind = "created"
          => /\ Len(daily_goals) = last_call.n_goals + 1
             /\ daily_goals[last_call.ret] = last_call.goal
             /\ last_call.goal.target_skill = last_call.plan.target_skill
             /\ last_call.goal.activity_id \in InDurationWindow(last_call.goal.target_skill)
             /\ last_call.goal.skill_gap = Gap(last_call.goal.target_skill)
             /\ last_call.goal.priority_score
                  = PostRotationPriority(last_call.goal.target_skill)
       /\ (/\ last_call.plan.target_skill # NoSkill
           /\ InDurationWindow(last_call.plan.target_skill) = {})
          => /\ last_call.kind = "none"
             /\ last_call.ret = None
             /\ Len(daily_goals) = last_call.n_goals

\* C34 witness: a writing goal created the day after a reading goal, on one
\* of the two writing activities of ten minutes, the one of thirty left out.
C34_Witness ==
    /\ GoalPlanned
    /\ last_call.kind = "created"
    /\ YesterdaySkills = {"reading"}
    /\ last_call.goal.target_skill = "writing"
    /\ last_call.goal.activity_id \in {2, 5}
    /\ last_call.goal.skill_gap = 20000
    /\ daily_goals[Len(daily_goals)] = last_call.goal

----------------------------------------------------------------------------
(* Properties of the incentive manager *)

IsIncentiveCall == last_call.op = "check_and_unlock_incentives"

\* C19: when check_and_unlock_incentives is called for a user straight after
\* a call for the same user, with no operation on the user's metrics in
\* between, the second call returns an empty list and creates no
\* IncentiveUnlock row.
C19_SecondEvaluationUnlocksNothing ==
    [][ (/\ IsIncentiveCall
         /\ last_call' # last_call
         /\ last_call'.op = "check_and_unlock_incentives"
         /\ last_call'.user_id = last_call.user_id)
        => (/\ last_call'.ret = 0
            /\ incentive_unlocks' = incentive_unlocks) ]_vars

\* C19 witness: a call that returned an empty list for a user who meets the
\* Tier 1 criteria and has the unlock already.
C19_Witness ==
    /\ IsIncentiveCall
    /\ last_call.ret = 0
    /\ _should_unlock_career_counseling_t1(users[last_call.user_id])
    /\ last_call.n_unlocks >= 1
    /\ Len(incentive_unlocks) = last_call.n_unlocks

\* The rows the last call added to incentive_unlock
AddedUnlocks == SubSeq(incentive_unlocks, last_call.n_unlocks + 1, Len(incentive_unlocks))

\* The last call added a row of this type
NewlyUnlocked(type) ==
    \E i \in 1..Len(AddedUnlocks) : AddedUnlocks[i].incentive_type = type

\* The user of the last call had this type before the call
UnlockedBefore(type) ==
    \E i \in 1..last_call.n_unlocks :
        /\ incentive_unlocks[i].user_id = last_call.user_id
        /\ incentive_unlocks[i].incentive_type = type

\* One of the three metrics the call read is at or over its threshold
AnyThresholdMet(streak, activities, points) ==
    \/ last_call.pre.current_streak >= streak
    \/ last_call.pre.total_activities >= activities
    \/ last_call.pre.total_points >= points

\* C21: check_and_unlock_incentives newly unlocks Tier 1 exactly when the
\* user has not got it yet and the streak is at least 7, or the activities at
\* least 30, or the points at least 500; Tier 2 likewise with 30, 100 and
\* 2000; when none of the three is met nothing is unlocked for the tier.
C21_TierUnlockedOnAnyThreshold ==
    IsIncentiveCall =>
      /\ NewlyUnlocked("career_counseling_tier_1")
           <=> (/\ ~UnlockedBefore("career_counseling_tier_1")
                /\ AnyThresholdMet(7, 30, 500))
      /\ NewlyUnlocked("career_counseling_tier_2")
           <=> (/\ ~UnlockedBefore("career_counseling_tier_2")
                /\ AnyThresholdMet(30, 100, 2000))

\* C21 witness: a call unlocked Tier 1 for a user over the points threshold
\* alone, and Tier 2 was not unlocked.
C21_Witness ==
    /\ IsIncentiveCall
    /\ NewlyUnlocked("career_counseling_tier_1")
    /\ ~NewlyUnlocked("career_counseling_tier_2")
    /\ last_call.pre.total_points >= 500
    /\ last_call.pre.current_streak < 7
    /\ last_call.pre.total_activities < 30

\* The completions this user has for a skill
PracticeCount(uid, skill) ==
    Cardinality({i \in 1..Len(completions) :
                    /\ completions[i].user_id = uid
                    /\ Activities[completions[i].activity_id].skill = skill})

\* The streak the incentive evaluation of the last call read: the stored one,
\* which record_activity_completion has updated before it evaluates
StreakEvaluated ==
    IF last_call.op = "record_activity_completion"
    THEN users[last_call.user_id].current_streak
    ELSE last_call.pre.current_streak

\* The last call evaluated the incentives of a user
EvaluatedIncentives ==
    /\ last_call.op \in {"check_and_unlock_incentives", "record_activity_completion"}
    /\ last_call.raised = ""

\* C22: premium content is unlocked only if the streak is at least 14 and
\* each of the four skills has at least 5 completions by the user; when the
\* streak or the count of any one skill falls short, no premium row is added.
C22_PremiumNeedsStreakAndAllSkills ==
    (EvaluatedIncentives /\ NewlyUnlocked("premium_content"))
      => /\ StreakEvaluated >= 14
         /\ \A skill \in SkillType : PracticeCount(last_call.user_id, skill) >= 5

\* C22 witness: premium content was unlocked by the completion that brought
\* the fourth skill to five, for a user who had another incentive already.
C22_Witness ==
    /\ last_call.op = "record_activity_completion"
    /\ NewlyUnlocked("premium_content")
    /\ PracticeCount(last_call.user_id, "writing") = 5
    /\ last_call.n_completions = Len(completions)
    /\ last_call.n_unlocks >= 1

\* C23: claiming is idempotent: claimed_at is set once, and a second
\* claim_incentive on a claimed unlock leaves claimed_at at the value the
\* first claim set.
C23_ClaimedAtSetOnce ==
    [][ \A i \in 1..Len(incentive_unlocks) :
          incentive_unlocks[i].claimed_at # NoDate
          => incentive_unlocks'[i].claimed_at = incentive_unlocks[i].claimed_at ]_vars

----------------------------------------------------------------------------
(* Properties of the leaderboard ranker *)

IsLeaderboardCall == last_call.op = "calculate_leaderboards"

\* The rows of leaderboard_entry for a cohort
EntriesOf(cohort) ==
    {i \in 1..Len(leaderboard_entries) :
        /\ leaderboard_entries[i].target_score_group = cohort.target_score_group
        /\ leaderboard_entries[i].timeline_group = cohort.timeline_group}

\* The users the ranker puts in a cohort who have a positive consistency
\* score on a day
RankableOn(cohort, day) ==
    {uid \in DOMAIN users :
        /\ users[uid].target_score >= cohort.target_score_group - 5000
        /\ users[uid].target_score <= cohort.target_score_group
        /\ users[uid].preparation_timeline = cohort.timeline_group
        /\ _calculate_consistency_score(uid, users[uid], completions, daily_goals,
                                        day) > 0}

Rankable(cohort) == RankableOn(cohort, last_call.day)

\* C24: after calculate_leaderboards the entries stored for every cohort are
\* exactly one entry per user now in the cohort with a positive consistency
\* score, and no entry of an earlier run remains, the cohorts that had
\* entries and have no users now included.
C24_FullReplace ==
    IsLeaderboardCall =>
      \A k \in 1..Len(Cohorts) :
         /\ \A i \in EntriesOf(Cohorts[k]) :
               leaderboard_entries[i].user_id \in Rankable(Cohorts[k])
         /\ \A uid \in Rankable(Cohorts[k]) :
               Cardinality({i \in EntriesOf(Cohorts[k]) :
                              leaderboard_entries[i].user_id = uid}) = 1

\* The rows the last run wrote
Compiled == (last_call.n_kept + 1)..Len(leaderboard_entries)

\* C25: a user is placed in the cohort of score group G only if the target
\* score is in the half-open interval (G - 0.5, G], so that after one
\* compilation no user has entries in two score groups.
C25_OneScoreGroupPerUser ==
    IsLeaderboardCall =>
      /\ \A i \in Compiled :
            LET e == leaderboard_entries[i] IN
            /\ users[e.user_id].target_score > e.target_score_group - 5000
            /\ users[e.user_id].target_score <= e.target_score_group
      /\ \A i, j \in Compiled :
            leaderboard_entries[i].user_id = leaderboard_entries[j].user_id
            => leaderboard_entries[i].target_score_group
                 = leaderboard_entries[j].target_score_group

\* The rows the last run wrote for a cohort
CompiledFor(cohort) == Compiled \cap EntriesOf(cohort)

\* C26: in each compiled cohort of n entries the ranks are exactly 1..n, each
\* used once, and follow the consistency score downwards: a smaller rank
\* never goes with a smaller score.
C26_RanksFollowScores ==
    IsLeaderboardCall =>
      \A k \in 1..Len(Cohorts) :
         LET E == CompiledFor(Cohorts[k]) IN
         /\ \A r \in 1..Cardinality(E) :
               Cardinality({i \in E : leaderboard_entries[i].rank = r}) = 1
         /\ \A a, b \in E :
               leaderboard_entries[a].rank < leaderboard_entries[b].rank
               => leaderboard_entries[a].consistency_score
                    >= leaderboard_entries[b].consistency_score

\* C26 witness: a run ranked three users of one cohort, user 2 by a higher
\* score ahead of user 1.
C26_Witness ==
    /\ IsLeaderboardCall
    /\ \E k \in 1..Len(Cohorts) :
         LET E == CompiledFor(Cohorts[k]) IN
         /\ Cardinality(E) = 3
         /\ \E a, b \in E :
              /\ leaderboard_entries[a].rank = 1
              /\ leaderboard_entries[a].user_id = 2
              /\ leaderboard_entries[b].rank = 2
              /\ leaderboard_entries[b].user_id = 1
              /\ leaderboard_entries[a].consistency_score
                   > leaderboard_entries[b].consistency_score

----------------------------------------------------------------------------
(* Properties of the counters *)

\* C28: total_points and total_activities of every user never decrease,
\* whatever operation of the engine changes them (record_activity_completion,
\* add_points, increment_activity_count) and whatever input it accepts.
C28_CountersNeverDecrease ==
    [][ \A uid \in DOMAIN users :
          /\ users'[uid].total_points >= users[uid].total_points
          /\ users'[uid].total_activities >= users[uid].total_activities ]_vars

----------------------------------------------------------------------------
(* Properties of the completion flow *)

\* The user of the last call, as the call left the row
PostUser == users[last_call.user_id]

\* One of the three metrics, as the call left them, is at or over its threshold
ThresholdReached(streak, activities, points) ==
    \/ PostUser.current_streak >= streak
    \/ PostUser.total_activities >= activities
    \/ PostUser.total_points >= points

\* C39: record_activity_completion updates the counters, then the streak,
\* then the skill level when an analysis is due, then evaluates the
\* incentives: the evaluation sees the counters and the streak as this
\* completion left them, so a completion that brings total_activities or
\* total_points to the threshold of a tier unlocks the tier in the same call.
C39_IncentivesSeeThisCompletion ==
    (last_call.op = "record_activity_completion" /\ last_call.raised = "")
    => /\ PostUser.total_activities = last_call.pre.total_activities + 1
       /\ PostUser.total_points
            = last_call.pre.total_points + last_call.completion.points_earned
       /\ NewlyUnlocked("career_counseling_tier_1")
            <=> (/\ ~UnlockedBefore("career_counseling_tier_1")
                 /\ ThresholdReached(INCENTIVE_TIER1_STREAK, INCENTIVE_TIER1_ACTIVITIES,
                                     INCENTIVE_TIER1_POINTS))
       /\ NewlyUnlocked("career_counseling_tier_2")
            <=> (/\ ~UnlockedBefore("career_counseling_tier_2")
                 /\ ThresholdReached(INCENTIVE_TIER2_STREAK, INCENTIVE_TIER2_ACTIVITIES,
                                     INCENTIVE_TIER2_POINTS))
       /\ last_call.n_unlocked = Len(AddedUnlocks)

\* C39 witness: the completion that brought total_activities from 29 to 30,
\* with the streak and the points under their thresholds, unlocked Tier 1.
C39_Witness ==
    /\ last_call.op = "record_activity_completion"
    /\ last_call.raised = ""
    /\ last_call.pre.total_activities = INCENTIVE_TIER1_ACTIVITIES - 1
    /\ PostUser.total_activities = INCENTIVE_TIER1_ACTIVITIES
    /\ PostUser.current_streak < INCENTIVE_TIER1_STREAK
    /\ PostUser.total_points < INCENTIVE_TIER1_POINTS
    /\ NewlyUnlocked("career_counseling_tier_1")


\* C30: when record_activity_completion processes a completion dated on the
\* calendar day after the user's previous activity, the streak transition is
\* computed from the gap to that previous activity date, so current_streak
\* grows by exactly 1.
C30_NextDayCompletionContinues ==
    (/\ last_call.op = "record_activity_completion"
     /\ last_call.raised = ""
     /\ last_call.pre.last_activity_date # NoDate
     /\ last_call.completion.completed_at = last_call.pre.last_activity_date + 1)
    => users[last_call.user_id].current_streak = last_call.pre.current_streak + 1

----------------------------------------------------------------------------
(* Properties of the rejected calls *)

\* The tables and the users are as they were
NoStateChange ==
    UNCHANGED <<users, completions, streak_history, skill_progress, incentive_unlocks,
                daily_goals, leaderboard_entries>>

\* C29: complete_activity rejects invalid input with no change of state: for
\* an unknown activity id it raises ActivityNotFoundError and for a score
\* outside 0..100 ValueError, and no completion is added and no counter of a
\* user changes; record_activity_completion for an unknown user raises and
\* changes nothing.
C29_RejectedWithoutChange ==
    [][ /\ (/\ last_call' # last_call
            /\ last_call'.op = "complete_activity"
            /\ last_call'.completion.activity_id \notin DOMAIN Activities)
           => (last_call'.raised = "ActivityNotFoundError" /\ NoStateChange)
        /\ (/\ last_call' # last_call
            /\ last_call'.op = "complete_activity"
            /\ last_call'.completion.activity_id \in DOMAIN Activities
            /\ ~(0 <= last_call'.completion.score /\ last_call'.completion.score <= 100))
           => (last_call'.raised = "ValueError" /\ NoStateChange)
        /\ (/\ last_call' # last_call
            /\ last_call'.op = "record_activity_completion"
            /\ last_call'.user_id \notin DOMAIN users)
           => (last_call'.raised # "" /\ NoStateChange) ]_vars

\* C29 witness: complete_activity was refused with ValueError for a score
\* over 100 on a known activity, and the table of completions is as the call
\* found it.
C29_Witness ==
    /\ last_call.op = "complete_activity"
    /\ last_call.completion.activity_id \in DOMAIN Activities
    /\ last_call.completion.score > 100
    /\ last_call.raised = "ValueError"
    /\ Len(completions) = last_call.n_completions

----------------------------------------------------------------------------
(* Properties of concurrent requests *)

\* The last SkillProgress row is the snapshot of this level of this user
SnapshotOf(uid, skill, progress) ==
    /\ progress # << >>
    /\ progress[Len(progress)].user_id = uid
    /\ progress[Len(progress)].skill = skill
    /\ progress[Len(progress)].new_level = users'[uid].level[skill]

\* C12: the write of a skill level and the SkillProgress snapshot of it become
\* visible together: no step changes a stored level without appending the
\* snapshot that records it, so that no reader and no failure finds the new
\* level without its snapshot.
C12_LevelAndSnapshotTogether ==
    [][ \A uid \in DOMAIN users : \A skill \in SkillType :
          users'[uid].level[skill] # users[uid].level[skill]
          => /\ Len(skill_progress') = Len(skill_progress) + 1
             /\ SnapshotOf(uid, skill, skill_progress') ]_vars

\* C14: after any interleaving of concurrent assign_daily_goal calls, a user
\* has at most one DailyGoal row for a day.
C14_OneGoalPerUserDay ==
    \A i, j \in 1..Len(daily_goals) :
        (/\ daily_goals[i].user_id = daily_goals[j].user_id
         /\ daily_goals[i].assigned_date = daily_goals[j].assigned_date)
        => i = j

\* The rows of a cohort, as a reader of the table finds them
RowsOf(entries, cohort) ==
    SelectSeq(entries, LAMBDA e : /\ e.target_score_group = cohort.target_score_group
                                  /\ e.timeline_group = cohort.timeline_group)

\* C27: the deletion of a cohort's old entries and the insertion of its new
\* ranked set reach the table in one step: whenever the rows a reader finds
\* for a cohort that had entries and has rankable users change, they change
\* to the complete new set, one row per rankable user with the ranks from 1,
\* never to an empty or a partly filled cohort.
C27_ReplaceIsAtomic ==
    [][ \A k \in 1..Len(Cohorts) :
          LET before == RowsOf(leaderboard_entries, Cohorts[k])
              after == RowsOf(leaderboard_entries', Cohorts[k])
          IN  (before # << >> /\ after # before /\ RankableOn(Cohorts[k], today) # {})
              => /\ {after[i].user_id : i \in 1..Len(after)} = RankableOn(Cohorts[k], today)
                 /\ {after[i].rank : i \in 1..Len(after)} = 1..Len(after)
                 /\ Len(after) = Cardinality(RankableOn(Cohorts[k], today)) ]_vars

\* C27 witness: a run has deleted the old rows of a cohort and added new ones
\* that differ from them, and has not committed; the table still shows the
\* old rows.
C27_Witness ==
    \E p \in Procs :
       /\ inflight[p].op = "calculate_leaderboards"
       /\ inflight[p].pending
       /\ inflight[p].added # << >>
       /\ RowsOf(leaderboard_entries, Cohorts[inflight[p].k]) # << >>
       /\ RowsOf(leaderboard_entries, Cohorts[inflight[p].k]) # inflight[p].added

\* C35: the compilation tolerates the failure of a cohort: when the store
\* fails while a cohort is being compiled the cohort is skipped, the run goes
\* on with the remaining cohorts and calculate_leaderboards returns; no run
\* ends with the error of the store.
C35_CohortFailureTolerated ==
    IsLeaderboardCall
    => /\ last_call.raised = ""
       /\ last_call.ret # None

\* C37: the cohorts partition the users: every user with a target score in
\* 0.0..9.0 and a preparation timeline is in exactly one cohort, so after
\* calculate_leaderboards every such user with a positive consistency score
\* has exactly one leaderboard entry.
C37_CohortsPartitionUsers ==
    IsLeaderboardCall =>
      \A uid \in DOMAIN users :
         (/\ users[uid].target_score >= 0
          /\ users[uid].target_score <= 9 * Unit
          /\ \E t \in 1..Len(TimelineGroup) :
                users[uid].preparation_timeline = TimelineGroup[t]
          /\ _calculate_consistency_score(uid, users[uid], completions, daily_goals,
                                          last_call.day) > 0)
         => Cardinality({i \in 1..Len(leaderboard_entries) :
                           leaderboard_entries[i].user_id = uid}) = 1

\* C36: with the default weights every consistency score stored in a
\* LeaderboardEntry lies in 0..100, for every user, completions and goals; the
\* active days counted over the period never exceed LEADERBOARD_PERIOD_DAYS.
C36_ScoreWithinHundred ==
    \A i \in 1..Len(leaderboard_entries) :
        /\ leaderboard_entries[i].consistency_score >= 0
        /\ leaderboard_entries[i].consistency_score <= 100 * 10
        /\ leaderboard_entries[i].active_days <= leaderboard_entries[i].period_days

\* C38: completions of one user recorded by concurrent requests are
\* serialized: every call of record_activity_completion that commits leaves
\* total_activities one above, and total_points points_earned above, what the
\* calls committed before it left, so that two calls add 2 and the sum of
\* their points; no update is lost.
C38_ConcurrentRecordsSerialized ==
    [][ (/\ last_call' # last_call
         /\ last_call'.op = "record_activity_completion"
         /\ last_call'.raised = "")
        => /\ users'[last_call'.user_id].total_activities
                = users[last_call'.user_id].total_activities + 1
           /\ users'[last_call'.user_id].total_points
                = users[last_call'.user_id].total_points
                    + last_call'.completion.points_earned ]_vars

\* The rows of incentive_unlock for a user and a type
UnlocksOf(uid, type) ==
    {i \in 1..Len(incentive_unlocks) :
        incentive_unlocks[i].user_id = uid /\ incentive_unlocks[i].incentive_type = type}

\* C20: in every state there is at most one IncentiveUnlock row for a user and
\* an incentive type, whatever the interleaving of evaluations, and no step
\* removes or replaces a row, a streak reset included.
C20_UnlockOnceAndForAll ==
    /\ [](\A uid \in UserIds : \A k \in 1..Len(IncentiveType) :
            Cardinality(UnlocksOf(uid, IncentiveType[k])) <= 1)
    /\ [][ /\ Len(incentive_unlocks') >= Len(incentive_unlocks)
           /\ \A i \in 1..Len(incentive_unlocks) :
                incentive_unlocks'[i] = incentive_unlocks[i] ]_vars

\* C20 witness: of two concurrent evaluations the second insert was refused,
\* and the Tier 1 unlock is kept although the streak was reset below the
\* threshold in the meantime.
C20_Witness ==
    /\ IsIncentiveCall
    /\ last_call.raised = "IntegrityError"
    /\ Cardinality(UnlocksOf(last_call.user_id, "career_counseling_tier_1")) = 1
    /\ ~_should_unlock_career_counseling_t1(users[last_call.user_id])

----------------------------------------------------------------------------
(* Properties of the streak calculator *)

IsStreakCall == last_call.op = "update_streak"
PreGap == last_call.day - last_call.pre.last_activity_date
HasPrior == last_call.pre.last_activity_date # NoDate
StreakUser == users[last_call.user_id]
AddedHistory == SubSeq(streak_history, last_call.n_history + 1, Len(streak_history))

\* C1: for every user, longestStreak >= currentStreak >= 0 holds after every
\* call of the engine, whichever streak transition was taken.
C1_LongestAtLeastCurrent ==
    \A uid \in DOMAIN users :
        /\ users[uid].current_streak >= 0
        /\ users[uid].longest_streak >= users[uid].current_streak

\* C1 witness: a Recover transition has raised the longest streak.
C1_Witness ==
    /\ IsStreakCall
    /\ AddedHistory # << >>
    /\ AddedHistory[1].recovery_used
    /\ StreakUser.longest_streak > last_call.pre.longest_streak

\* C2: after the first-ever activity of a user (no streak yet) is recorded,
\* advancing the streak on that same day yields currentStreak = 1: when
\* update_streak runs after the first activity date was stored, and when the
\* completion goes through record_activity_completion.
C2_FirstActivityStartsStreak ==
    /\ ( /\ IsStreakCall
         /\ last_call.pre.current_streak = 0
         /\ last_call.pre.total_activities = 0
         /\ last_call.pre.last_activity_date = last_call.day )
       => (last_call.ret = 1 /\ StreakUser.current_streak = 1)
    /\ ( /\ last_call.op = "record_activity_completion"
         /\ last_call.raised = ""
         /\ last_call.pre.current_streak = 0
         /\ last_call.pre.total_activities = 0
         /\ last_call.pre.last_activity_date = NoDate
         /\ last_call.completion.completed_at = last_call.day )
       => (last_call.ret = 1 /\ StreakUser.current_streak = 1)

\* C3: with the last activity on a Friday, today the following Monday and
\* weekend recovery enabled, update_streak recovers: it returns the streak
\* plus one, raises the longest streak and appends a recovery record.
C3_FridayToMondayRecovers ==
    ( /\ IsStreakCall
      /\ HasPrior
      /\ WEEKEND_RECOVERY_ENABLED
      /\ Weekday(last_call.pre.last_activity_date) = 4
      /\ Weekday(last_call.day) = 0
      /\ PreGap = 3 )
    => /\ last_call.ret = last_call.pre.current_streak + 1
       /\ StreakUser.current_streak = last_call.pre.current_streak + 1
       /\ StreakUser.longest_streak >= StreakUser.current_streak
       /\ Len(AddedHistory) = 1
       /\ AddedHistory[1].recovery_used

\* C4: when the last activity was exactly one day before today, update_streak
\* returns the previous streak plus one, stores it, sets the longest streak to
\* the larger of the previous longest and the new streak, and writes no
\* StreakHistory record.
C4_ContinueOnNextDay ==
    (IsStreakCall /\ HasPrior /\ PreGap = 1)
    => /\ last_call.ret = last_call.pre.current_streak + 1
       /\ StreakUser.current_streak = last_call.pre.current_streak + 1
       /\ StreakUser.longest_streak =
            Max(last_call.pre.longest_streak, last_call.pre.current_streak + 1)
       /\ AddedHistory = << >>

\* C4 witness: a streak of 5 continued to 6 on the next day.
C4_Witness ==
    /\ IsStreakCall /\ HasPrior /\ PreGap = 1
    /\ last_call.pre.current_streak = 5
    /\ last_call.ret = 6

\* The gap is the Friday-to-Monday exception as update_streak tests it.
PreRecoveryEligible ==
    /\ PreGap = 2
    /\ WEEKEND_RECOVERY_ENABLED
    /\ Weekday(last_call.pre.last_activity_date) = 4
    /\ Weekday(last_call.now) = 0

C7_IdempotentPerDay ==
    [][ ( /\ last_call.op = "update_streak"
          /\ last_call'.op = "update_streak"
          /\ last_call'.user_id = last_call.user_id
          /\ last_call.now = last_call.day
          /\ last_call'.day = last_call.day )
        => (users' = users /\ streak_history' = streak_history) ]_vars

====
